---- MODULE Spec2Model ----
(***************************************************************************)
(* Model of the curiefense request-inspection core: the decision algebra   *)
(* (interface/mod.rs), the tagger (tagging.rs), the visitor-id lookups     *)
(* (fingerprint.rs) and the staged embedding API (curiefense-lua/lib.rs).  *)
(*                                                                         *)
(* Rust Option<T> is modelled as a sequence of length 0 (None) or 1        *)
(* (Some(x)); a HashMap<String, _> as a function over a finite key set.    *)
(***************************************************************************)
EXTENDS Integers, Sequences, FiniteSets, TLC

VARIABLES
    pc,        \* position of the operation of the specification under check
    d1, d2,    \* merge_decisions: the two Decision arguments
    merged,    \* merge_decisions: the returned Decision
    s1, s2, s3,\* stronger_decision: SimpleDecision arguments
    s12, s21,  \* stronger_decision(s1, s2), stronger_decision(s2, s1)
    sL, sR,    \* stronger_decision folded to the left / to the right
    human,     \* tag_request: the humanity verdict of the request (is_human)
    filters,   \* tag_request: the configured sections (globalfilters)
    request,   \* tag_request: the request (rinfo; its identity map is written)
    lookups,   \* the visitor-id store and the verification provider
    tagged,    \* tag_request: the returned (tags, decision, stats)
    rendered,  \* to_action of the action of the tagging decision
    logrec,    \* the log record of the rendered decision
    verdict,   \* the oracle passed to to_decision and what to_decision returned
    table,     \* embedding API: the Lua argument table of the request
    config,    \* embedding API: the configuration found at the config path
    answers,   \* embedding API: the flow and limit results of the embedder
    oneshot,   \* value returned by inspect_request
    pr1,       \* handle returned by inspect_request_init
    pr2,       \* handle returned by inspect_request_flows
    staged,    \* value returned by inspect_request_process
    io,        \* blocking lookups made inside inspect_request_init
    mrule,     \* matcher: the rule checked
    mreq,      \* matcher: the request it is checked against
    mres,      \* matcher: result of check_rule on the rule
    mopt       \* matcher: the optimized rule and the result of check_rule on it

vars == <<pc, d1, d2, merged, s1, s2, s3, s12, s21, sL, sR,
          human, filters, request, lookups, tagged, rendered, logrec, verdict,
          table, config, answers, oneshot, pr1, pr2, staged, io,
          mrule, mreq, mres, mopt>>

mergeVars == <<d1, d2, merged>>
strongerVars == <<s1, s2, s3, s12, s21, sL, sR>>
tagVars == <<human, filters, request, lookups, tagged, rendered, logrec, verdict>>
inspectVars == <<table, config, answers, oneshot, pr1, pr2, staged, io>>
matchVars == <<mrule, mreq, mres, mopt>>

(***************************************************************************)
(* Bounds                                                                  *)
(***************************************************************************)
MaxReasons == 2
MaxSections == 2
MaxEntries == 2

None == <<>>
Some(x) == <<x>>
IsSome(o) == Len(o) = 1
Unwrap(o) == o[1]

RECURSIVE SeqsUpTo(_, _)
SeqsUpTo(S, n) ==
    IF n = 0 THEN {<<>>}
    ELSE LET shorter == SeqsUpTo(S, n - 1)
         IN  shorter \cup {Append(q, x) : q \in {r \in shorter : Len(r) = n - 1}, x \in S}

Max(a, b) == IF a >= b THEN a ELSE b

(***************************************************************************)
(* HashMap<String, String>                                                 *)
(***************************************************************************)
EmptyMap == [k \in {} |-> <<>>]
HeaderMaps == UNION {[D -> {<<"v1">>, <<"v2">>}] : D \in SUBSET {"h1", "h2"}}

\* HashMap::extend: the entries of m2 are inserted into m1, replacing
\* the value of a key that is already present.
MapExtend(m1, m2) ==
    [k \in (DOMAIN m1) \cup (DOMAIN m2) |-> IF k \in DOMAIN m2 THEN m2[k] ELSE m1[k]]

(***************************************************************************)
(* BlockReason, ActionType, Action, Decision                               *)
(***************************************************************************)
ReasonPool ==
    { [initiator |-> "Acl", decision |-> "Skip", id |-> "", locations |-> {}],
      [initiator |-> "ContentFilter", decision |-> "Blocking", id |-> "", locations |-> {}] }

\* BlockReason::global_filter
GfReason(id, bd, locs) ==
    [initiator |-> "GlobalFilter", decision |-> bd, id |-> id, locations |-> locs]

ActionTypes == {"Skip", "Monitor", "Block"}

ActionType_is_blocking(atype) == atype = "Block"

ActionType_is_final(atype) == atype /= "Monitor"

ActionType_priority(atype) ==
    CASE atype = "Block"   -> 6
      [] atype = "Monitor" -> 1
      [] atype = "Skip"    -> 9

Action_default ==
    [atype |-> "Block", block_mode |-> TRUE, status |-> 503, headers |-> None,
     content |-> "request denied", extra_tags |-> None]

Statuses == {403, 503}

Actions ==
    [atype : ActionTypes, block_mode : {TRUE}, status : Statuses,
     headers : {None} \cup {Some(m) : m \in HeaderMaps},
     content : {"request denied"}, extra_tags : {None}]

Decisions ==
    [maction : {None} \cup {Some(a) : a \in Actions},
     reasons : SeqsUpTo(ReasonPool, MaxReasons)]

Decision_is_blocking(d) ==
    IF IsSome(d.maction) THEN ActionType_is_blocking(Unwrap(d.maction).atype) ELSE FALSE

\* is_final that looks at the action only
Decision_is_final_action_only(d) ==
    IF IsSome(d.maction) THEN ActionType_is_final(Unwrap(d.maction).atype) ELSE FALSE

Decision_is_final(d) ==
    (IF IsSome(d.maction) THEN ActionType_is_final(Unwrap(d.maction).atype) ELSE FALSE)
    \/ \E i \in 1..Len(d.reasons) : d.reasons[i].decision = "Skip"

\* merge_choose with a strict comparison: on equal priorities the second
\* decision is kept
merge_choose_strict(a, b) ==
    CASE IsSome(a.maction) /\ IsSome(b.maction) ->
            IF ActionType_priority(Unwrap(a.maction).atype)
                 > ActionType_priority(Unwrap(b.maction).atype)
            THEN <<a, b>> ELSE <<b, a>>
      [] ~IsSome(a.maction) /\ IsSome(b.maction) -> <<b, a>>
      [] OTHER -> <<a, b>>

\* the decision merge_decisions keeps (first) and the one it throws away
merge_choose(a, b) ==
    CASE IsSome(a.maction) /\ IsSome(b.maction) ->
            IF ActionType_priority(Unwrap(a.maction).atype)
                 >= ActionType_priority(Unwrap(b.maction).atype)
            THEN <<a, b>> ELSE <<b, a>>
      [] ~IsSome(a.maction) /\ IsSome(b.maction) -> <<b, a>>
      [] OTHER -> <<a, b>>

\* the kept action after the header merge of a Monitor action
merge_headers(kept, thrown) ==
    IF IsSome(kept.maction)
       /\ Unwrap(kept.maction).atype = "Monitor"
       /\ IsSome(Unwrap(kept.maction).headers)
    THEN LET action == Unwrap(kept.maction)
             throw_headers ==
                 IF IsSome(thrown.maction) /\ IsSome(Unwrap(thrown.maction).headers)
                 THEN Unwrap(Unwrap(thrown.maction).headers)
                 ELSE EmptyMap
         IN  Some([action EXCEPT !.headers = Some(MapExtend(Unwrap(action.headers), throw_headers))])
    ELSE kept.maction

\* merge_decisions concatenating the reasons in argument order instead of
\* kept-then-thrown order
merge_decisions_arg_order(a, b) ==
    LET kt == merge_choose(a, b)
    IN  [maction |-> merge_headers(kt[1], kt[2]),
         reasons |-> a.reasons \o b.reasons]

merge_decisions(a, b) ==
    LET kt == merge_choose(a, b)
        kept == kt[1]
        thrown == kt[2]
    IN  [maction |-> merge_headers(kept, thrown),
         reasons |-> kept.reasons \o thrown.reasons]

(***************************************************************************)
(* SimpleActionT, SimpleAction, SimpleDecision                             *)
(***************************************************************************)
SimpleKinds ==
    {"Skip", "Monitor", "Custom", "Challenge", "Identity", "Fingerprint", "FingerprintBlock"}
ContentKinds == {"Custom", "Fingerprint", "FingerprintBlock"}
Contents == {"blocked", "fp"}

SimpleActionTs ==
    {[kind |-> k, content |-> ""] : k \in SimpleKinds \ ContentKinds}
    \cup {[kind |-> k, content |-> c] : k \in ContentKinds, c \in Contents}

SimpleActionT_priority(atype) ==
    CASE atype.kind = "Custom"           -> 8
      [] atype.kind = "Challenge"        -> 6
      [] atype.kind = "Monitor"          -> 1
      [] atype.kind = "Skip"             -> 9
      [] atype.kind = "Identity"         -> 2
      [] atype.kind = "Fingerprint"      -> 10
      [] atype.kind = "FingerprintBlock" -> 10

SimpleActionT_is_blocking(atype) == atype.kind /= "Monitor"

SimpleActionT_to_bdecision(atype) ==
    CASE atype.kind = "Skip" -> "Skip"
      [] atype.kind \in {"Monitor", "Identity", "Fingerprint"} -> "Monitor"
      [] atype.kind \in {"Challenge", "Custom", "FingerprintBlock"} -> "Blocking"

Pass == [tag |-> "Pass"]
SAction(a, reasons) == [tag |-> "Action", action |-> a, reasons |-> reasons]

\* stronger_decision with a strict comparison: ties keep the second argument
stronger_decision_strict(a, b) ==
    CASE a.tag = "Pass" -> b
      [] a.tag /= "Pass" /\ b.tag = "Pass" -> a
      [] OTHER ->
            IF SimpleActionT_priority(a.action.atype) > SimpleActionT_priority(b.action.atype)
            THEN a ELSE b

\* stronger_decision whose first arm returns the first argument
stronger_decision_pass_first(a, b) ==
    CASE a.tag = "Pass" -> a
      [] a.tag /= "Pass" /\ b.tag = "Pass" -> a
      [] OTHER ->
            IF SimpleActionT_priority(a.action.atype) >= SimpleActionT_priority(b.action.atype)
            THEN a ELSE b

stronger_decision(a, b) ==
    CASE a.tag = "Pass" -> b
      [] a.tag /= "Pass" /\ b.tag = "Pass" -> a
      [] OTHER ->
            IF SimpleActionT_priority(a.action.atype) >= SimpleActionT_priority(b.action.atype)
            THEN a ELSE b

(***************************************************************************)
(* Request model.  A string that the code searches or concatenates is a    *)
(* sequence of tokens; keys, ids and bodies are atoms.  A compiled regex   *)
(* of a filter entry is the set of strings it matches.                     *)
(***************************************************************************)
NatStr(n) ==
    CASE n = 0 -> "0" [] n = 1 -> "1" [] n = 2 -> "2" [] n = 3 -> "3" [] OTHER -> "many"

\* a Location without payload
Location(kind) == <<kind>>

MapGet(mp, k) == IF k \in DOMAIN mp THEN Some(mp[k]) ELSE None

(***************************************************************************)
(* Matcher (tagging.rs)                                                    *)
(***************************************************************************)
NoMatch == [matched |-> {}, matching |-> FALSE]

check_pair(pr, fld, lockind) ==
    IF pr.key \in DOMAIN fld
    THEN LET v == fld[pr.key]
         IN  IF pr.exact = v \/ (IsSome(pr.re) /\ v \in Unwrap(pr.re))
             THEN Some({<<lockind, pr.key, v>>})
             ELSE None
    ELSE None

\* check_single without the comparison with the exact string
check_single_regex_only(pr, s, loc) ==
    IF IsSome(pr.re) /\ s \in Unwrap(pr.re)
    THEN Some({loc})
    ELSE None

check_single(pr, s, loc) ==
    IF pr.exact = s \/ (IsSome(pr.re) /\ s \in Unwrap(pr.re))
    THEN Some({loc})
    ELSE None

bool_loc(loc, b) == IF b THEN Some({loc}) ELSE None

mbool(loc, mb) == bool_loc(loc, IF IsSome(mb) THEN Unwrap(mb) ELSE FALSE)

\* the atomic test of an entry: None, or Some(locations that matched)
\* str::to_lowercase on a string of tokens
to_lowercase(s) ==
    [i \in 1..Len(s) |->
        CASE s[i] = "US" -> "us"
          [] s[i] = "FR" -> "fr"
          [] s[i] = "NY" -> "ny"
          [] OTHER -> s[i]]

entry_test(rinfo, tags, e) ==
    CASE e.t = "Always" -> IF e.v THEN Some({Location("Request")}) ELSE None
      [] e.t = "Ip" ->
            mbool(Location("Ip"), IF IsSome(rinfo.ip) THEN Some(Unwrap(rinfo.ip) = e.addr) ELSE None)
      [] e.t = "Network" ->
            mbool(Location("Ip"), IF IsSome(rinfo.ip) THEN Some(Unwrap(rinfo.ip) \in e.net) ELSE None)
      [] e.t = "Range4" ->
            bool_loc(Location("Ip"), IsSome(rinfo.ip) /\ Unwrap(rinfo.ip).v = 4 /\ Unwrap(rinfo.ip) \in e.net)
      [] e.t = "Range6" ->
            bool_loc(Location("Ip"), IsSome(rinfo.ip) /\ Unwrap(rinfo.ip).v = 6 /\ Unwrap(rinfo.ip) \in e.net)
      [] e.t = "Path" -> check_single(e.single, rinfo.qpath, Location("Path"))
      [] e.t = "Query" -> check_single(e.single, rinfo.query, Location("Path"))
      [] e.t = "Uri" -> check_single(e.single, rinfo.uri, Location("Uri"))
      [] e.t = "Country" ->
            IF IsSome(rinfo.country_iso)
            THEN check_single(e.single, to_lowercase(Unwrap(rinfo.country_iso)), Location("Ip")) ELSE None
      [] e.t = "Region" ->
            IF IsSome(rinfo.region)
            THEN check_single(e.single, to_lowercase(Unwrap(rinfo.region)), Location("Ip")) ELSE None
      [] e.t = "SubRegion" ->
            IF IsSome(rinfo.subregion)
            THEN check_single(e.single, to_lowercase(Unwrap(rinfo.subregion)), Location("Ip")) ELSE None
      [] e.t = "Method" -> check_single(e.single, rinfo.method, Location("Request"))
      [] e.t = "Header" -> check_pair(e.pair, rinfo.headers, "HeaderValue")
      [] e.t = "Plugins" -> check_pair(e.pair, rinfo.plugins, "PluginValue")
      [] e.t = "Args" -> check_pair(e.pair, rinfo.args, "UriArgumentValue")
      [] e.t = "Cookies" -> check_pair(e.pair, rinfo.cookies, "CookieValue")
      [] e.t = "Asn" ->
            mbool(Location("Ip"), IF IsSome(rinfo.asn) THEN Some(Unwrap(rinfo.asn) = e.asn) ELSE None)
      [] e.t = "Company" ->
            IF IsSome(rinfo.company)
            THEN check_single(e.single, Unwrap(rinfo.company), Location("Ip")) ELSE None
      [] e.t = "Authority" -> check_single(e.single, rinfo.host, Location("Request"))
      [] e.t = "Tag" -> MapGet(tags, e.single.exact)
      [] e.t = "SecurityPolicyId" ->
            IF rinfo.secpolid = e.id THEN Some({Location("Request")}) ELSE None
      [] e.t = "SecurityPolicyEntryId" ->
            IF rinfo.secentryid = e.id THEN Some({Location("Request")}) ELSE None

\* check_entry with the negated arm giving no match when the test fails
check_entry_unnegated(rinfo, tags, sub) ==
    LET r == entry_test(rinfo, tags, sub.entry)
    IN  IF IsSome(r)
        THEN [matched |-> Unwrap(r), matching |-> ~sub.negated]
        ELSE NoMatch

check_entry(rinfo, tags, sub) ==
    LET r == entry_test(rinfo, tags, sub.entry)
    IN  IF IsSome(r)
        THEN [matched |-> Unwrap(r), matching |-> ~sub.negated]
        ELSE [matched |-> {}, matching |-> sub.negated]

\* the And arm: the loop over the entries from index i on, `matched' being
\* the locations accumulated so far
RECURSIVE check_rule(_, _, _)
RECURSIVE check_and(_, _, _, _, _)
check_and(rinfo, tags, entries, i, matched) ==
    IF i > Len(entries) THEN [matched |-> matched, matching |-> TRUE]
    ELSE LET res == check_rule(rinfo, tags, entries[i])
         IN  IF ~res.matching THEN NoMatch
             ELSE check_and(rinfo, tags, entries, i + 1, matched \cup res.matched)

\* the Or arm returning the last matching entry instead of the first
check_or_last(rinfo, tags, entries, i) ==
    LET hits == {j \in i..Len(entries) : check_rule(rinfo, tags, entries[j]).matching}
    IN  IF hits = {} THEN NoMatch
        ELSE check_rule(rinfo, tags, entries[CHOOSE j \in hits : \A k \in hits : k <= j])

\* the Or arm: the first matching entry from index i on
RECURSIVE check_or(_, _, _, _)
check_or(rinfo, tags, entries, i) ==
    IF i > Len(entries) THEN NoMatch
    ELSE LET res == check_rule(rinfo, tags, entries[i])
         IN  IF res.matching THEN res
             ELSE check_or(rinfo, tags, entries, i + 1)

check_rule(rinfo, tags, rel) ==
    IF rel.kind = "Rel"
    THEN IF rel.relation = "And"
         THEN check_and(rinfo, tags, rel.entries, 1, {})
         ELSE check_or(rinfo, tags, rel.entries, 1)
    ELSE check_entry(rinfo, tags, rel)

(***************************************************************************)
(* Tags: a map from tag name to the set of locations it was seen at        *)
(***************************************************************************)
Tags_new == [t \in {} |-> {}]

Tags_insert(tags, name, loc) ==
    [t \in (DOMAIN tags) \cup {name} |->
        IF t = name
        THEN (IF t \in DOMAIN tags THEN tags[t] ELSE {}) \cup {loc}
        ELSE tags[t]]

Tags_extend(tags, other) ==
    [t \in (DOMAIN tags) \cup (DOMAIN other) |->
        (IF t \in DOMAIN tags THEN tags[t] ELSE {})
        \cup (IF t \in DOMAIN other THEN other[t] ELSE {})]

\* new_with_vtags().with_raw_tags_locs(names, locs)
Tags_with_raw_tags_locs(names, locs) == [t \in names |-> locs]

Tags_contains(tags, name) == name \in DOMAIN tags

RECURSIVE SetToSeq(_)
SetToSeq(S) ==
    CHOOSE r \in { IF T = {} THEN <<>>
                   ELSE LET x == CHOOSE y \in T : TRUE IN <<x>> \o SetToSeq(T \ {x}) :
                   T \in {S} } : TRUE

RECURSIVE Flatten(_)
Flatten(ss) == IF ss = <<>> THEN <<>> ELSE Head(ss) \o Flatten(Tail(ss))

\* serde_json::to_string(&tags): the names of the tags, in some fixed order
Tags_to_json(tags) == <<"[">> \o Flatten(SetToSeq(DOMAIN tags)) \o <<"]">>

(***************************************************************************)
(* Request templates and selectors                                         *)
(***************************************************************************)
Raw(s) == [p |-> "Raw", s |-> s]
TagVar(name) == [p |-> "Tag", name |-> name]
SelVar(sel) == [p |-> "Sel", sel |-> sel]

\* parse_request_template of a string that holds no variable
parse_request_template(s) == <<Raw(s)>>

\* selector(rinfo, sel, tags): the selected value as a string, or None
selector(rinfo, sel, tags) ==
    CASE sel.kind = "Header" -> MapGet(rinfo.headers, sel.key)
      [] sel.kind = "Cookie" -> MapGet(rinfo.cookies, sel.key)
      [] sel.kind = "Args" -> MapGet(rinfo.args, sel.key)
      [] sel.kind = "Ip" -> Some(rinfo.ipstr)
      [] sel.kind = "Method" -> Some(rinfo.method)
      [] sel.kind = "Path" -> Some(rinfo.qpath)
      [] sel.kind = "Asn" ->
            IF IsSome(rinfo.asn) THEN Some(<<NatStr(Unwrap(rinfo.asn))>>) ELSE None
      [] sel.kind = "Tags" -> Some(Tags_to_json(tags))

RECURSIVE render_template(_, _, _)
render_template(rinfo, tags, template) ==
    IF template = <<>> THEN <<>>
    ELSE LET part == Head(template)
             out == CASE part.p = "Raw" -> part.s
                      [] part.p = "Sel" /\ part.sel.kind = "Tags" -> Tags_to_json(tags)
                      [] part.p = "Tag" ->
                            IF Tags_contains(tags, part.name) THEN <<"true">> ELSE <<"false">>
                      [] OTHER ->
                            LET v == selector(rinfo, part.sel, tags)
                            IN  IF IsSome(v) THEN Unwrap(v) ELSE <<"nil">>
         IN  out \o render_template(rinfo, tags, Tail(template))

(***************************************************************************)
(* SimpleAction::to_action                                                 *)
(***************************************************************************)
\* None when the action is a challenge of a non human, Some(action) otherwise
to_action(self, rinfo, tags, is_human) ==
    LET base == [Action_default EXCEPT
                    !.block_mode = ActionType_is_blocking(Action_default.atype),
                    !.status = self.status,
                    !.headers =
                        IF IsSome(self.headers)
                        THEN Some([k \in DOMAIN Unwrap(self.headers) |->
                                      render_template(rinfo, tags, Unwrap(self.headers)[k])])
                        ELSE None]
        kind == self.atype.kind
    IN  CASE kind = "Skip" -> Some([base EXCEPT !.atype = "Skip"])
          [] kind \in {"Monitor", "Identity"} -> Some([base EXCEPT !.atype = "Monitor"])
          [] kind \in {"Custom", "FingerprintBlock"} ->
                Some([base EXCEPT !.atype = "Block", !.content = self.atype.content])
          [] kind = "Challenge" ->
                IF ~is_human THEN None ELSE Some([base EXCEPT !.atype = "Monitor"])
          [] kind = "Fingerprint" ->
                Some([base EXCEPT !.atype = "Monitor", !.content = self.atype.content])

SimpleAction_is_blocking(self) == SimpleActionT_is_blocking(self.atype)

\* grasshopper::challenge_phase01: when the oracle gives its script and seed
\* for the user agent, a Monitor action bearing them as response headers,
\* otherwise the default block
challenge_phase01(gh, ua, reasons) ==
    IF gh.answers
    THEN [maction |-> Some([Action_default EXCEPT
                               !.atype = "Monitor",
                               !.headers = Some([k \in {"challenge"} |-> <<"js">> \o ua])]),
          reasons |-> reasons]
    ELSE [maction |-> Some(Action_default), reasons |-> reasons]

\* to_decision with the default action of an unanswered challenge replaced
\* by no action
to_decision_lenient(self, is_human, mgh, rinfo, tags, reason) ==
    LET tags1 == IF IsSome(self.extra_tags)
                 THEN Tags_extend(tags, [t \in Unwrap(self.extra_tags) |-> {Location("Request")}])
                 ELSE tags
        ma == to_action(self, rinfo, tags1, is_human)
    IN  IF self.atype.kind = "Skip"
        THEN [decision |-> [maction |-> None, reasons |-> reason], tags |-> tags1]
        ELSE IF IsSome(ma)
        THEN [decision |-> [maction |-> ma, reasons |-> reason], tags |-> tags1]
        ELSE IF IsSome(mgh) /\ "user-agent" \in DOMAIN rinfo.headers
        THEN [decision |-> challenge_phase01(Unwrap(mgh), rinfo.headers["user-agent"], reason),
              tags |-> tags1]
        ELSE [decision |-> [maction |-> None, reasons |-> reason], tags |-> tags1]

\* SimpleAction::to_decision: the decision, and the tags with the extra tags
\* of the action
to_decision(self, is_human, mgh, rinfo, tags, reason) ==
    LET tags1 == IF IsSome(self.extra_tags)
                 THEN Tags_extend(tags, [t \in Unwrap(self.extra_tags) |-> {Location("Request")}])
                 ELSE tags
        ma == to_action(self, rinfo, tags1, is_human)
    IN  IF self.atype.kind = "Skip"
        THEN [decision |-> [maction |-> None, reasons |-> reason], tags |-> tags1]
        ELSE IF IsSome(ma)
        THEN [decision |-> [maction |-> ma, reasons |-> reason], tags |-> tags1]
        ELSE IF IsSome(mgh) /\ "user-agent" \in DOMAIN rinfo.headers
        THEN [decision |-> challenge_phase01(Unwrap(mgh), rinfo.headers["user-agent"], reason),
              tags |-> tags1]
        ELSE [decision |-> [maction |-> Some(Action_default), reasons |-> reason],
              tags |-> tags1]

(***************************************************************************)
(* The log record (interface/mod.rs): its response_code and tags entries   *)
(***************************************************************************)
\* Tags::serialize_with_extra: the names of the tags, the extra tags, and one
\* tag key=value for every pair of the last argument
Tags_serialize_with_extra(tags, extra, code_vec) ==
    (DOMAIN tags) \cup extra \cup {<<kv[1], "=">> \o kv[2] : kv \in code_vec}

\* the synthetic pairs of LogTags::serialize; format!("{}", code) is the number
LogTags_code_vec(rcode) ==
    IF IsSome(rcode)
    THEN { <<"status", <<Unwrap(rcode)>> >>,
           <<"status-class", <<Unwrap(rcode) \div 100, "xx">> >> }
    ELSE {}

\* jsonlog_rinfo without the removal of the return code of a monitor action
jsonlog_rinfo_keep_rcode(dec, rcode, tags) ==
    [response_code |-> rcode,
     tags |-> Tags_serialize_with_extra(
                  tags,
                  IF IsSome(dec.maction) /\ IsSome(Unwrap(dec.maction).extra_tags)
                  THEN Unwrap(Unwrap(dec.maction).extra_tags) ELSE {},
                  LogTags_code_vec(rcode))]

jsonlog_rinfo(dec, rcode, tags) ==
    LET rcode_tags == IF IsSome(dec.maction) /\ Unwrap(dec.maction).atype = "Monitor"
                      THEN None ELSE rcode
    IN  [response_code |-> rcode,
         tags |-> Tags_serialize_with_extra(
                      tags,
                      IF IsSome(dec.maction) /\ IsSome(Unwrap(dec.maction).extra_tags)
                      THEN Unwrap(Unwrap(dec.maction).extra_tags) ELSE {},
                      LogTags_code_vec(rcode_tags))]

(***************************************************************************)
(* Visitor-id lookups (fingerprint.rs)                                     *)
(***************************************************************************)
\* GET of the id in the key-value store: true when the store is reachable
\* and holds the id
check_visitor_id(id, store) == store.reachable /\ id \in store.ids

\* request to the HTTPS visitor-verification provider: the response (or the
\* transport error) is printed and the function returns true
fingerprint_check_visitors(visitor_id, provider) == TRUE

(***************************************************************************)
(* Identity hashing (tagging.rs)                                           *)
(***************************************************************************)
\* Regex::new succeeds unless the pattern holds an unbalanced parenthesis
RegexValid(pat) == \A i \in 1..Len(pat) : pat[i] /= "("

\* a pattern is a sequence of literal tokens, "." matching any token
MatchAt(pat, s, i) ==
    /\ i + Len(pat) - 1 <= Len(s)
    /\ \A j \in 1..Len(pat) : pat[j] = "." \/ pat[j] = s[i + j - 1]

\* Regex::find: the leftmost match, as the matched part of s
regex_find(pat, s) ==
    LET hits == {i \in 1..Len(s) : MatchAt(pat, s, i)}
    IN  IF hits = {} THEN None
        ELSE LET i == CHOOSE h \in hits : \A g \in hits : h <= g
             IN  Some(SubSeq(s, i, i + Len(pat) - 1))

Sha256(s) == <<"SHA256[">> \o s \o <<"]">>

HashStart ==
    [hash_item |-> <<>>, regex_rule |-> <<>>, pre_rule |-> <<>>, cur_rule |-> <<>>,
     panic |-> FALSE]

\* push "." and the value, filtered by the pending regex when there is one
identity_push(st, value, clear) ==
    IF st.regex_rule = <<>>
    THEN [st EXCEPT !.hash_item = @ \o <<".">> \o value]
    ELSE IF ~RegexValid(st.regex_rule)
    THEN [st EXCEPT !.panic = TRUE]
    ELSE LET m == regex_find(st.regex_rule, value)
         IN  [st EXCEPT !.hash_item = @ \o <<".">> \o (IF IsSome(m) THEN Unwrap(m) ELSE <<"none">>),
                        !.regex_rule = IF clear THEN <<>> ELSE @]

\* one iteration of the loop over the parts of a template
identity_step(st, rule, rinfo, tags) ==
    LET parsed ==
            CASE rule.p = "Raw" ->
                    [st EXCEPT !.regex_rule = @ \o rule.s, !.pre_rule = st.cur_rule]
              [] rule.p = "Sel" ->
                    LET v == selector(rinfo, rule.sel, tags)
                    IN  [st EXCEPT !.pre_rule = st.cur_rule,
                                   !.cur_rule = IF IsSome(v) THEN Unwrap(v) ELSE <<"None">>]
              [] rule.p = "Tag" ->
                    [st EXCEPT !.hash_item =
                        @ \o (IF Tags_contains(tags, rule.name) THEN <<"true">> ELSE <<"false">>)]
    IN  IF parsed.pre_rule /= parsed.cur_rule
        THEN identity_push(parsed, parsed.pre_rule, TRUE)
        ELSE parsed

RECURSIVE identity_loop(_, _, _, _)
identity_loop(st, header_rules, rinfo, tags) ==
    IF header_rules = <<>> \/ st.panic THEN st
    ELSE CHOOSE r \in {identity_loop(nxt, Tail(header_rules), rinfo, tags) :
                          nxt \in {identity_step(st, Head(header_rules), rinfo, tags)}} : TRUE

\* the string that is hashed for one target header (and whether building it
\* panicked)
identity_hash_item(header_rules, rinfo, tags) ==
    LET st == identity_loop(HashStart, header_rules, rinfo, tags)
    IN  IF st.panic THEN st ELSE identity_push(st, st.cur_rule, FALSE)

(***************************************************************************)
(* tag_request (tagging.rs)                                                *)
(***************************************************************************)
OrNil(o) == IF IsSome(o) THEN Unwrap(o) ELSE <<"nil">>

Flag(o) == IF IsSome(o) THEN Unwrap(o) ELSE FALSE

\* the loop of inserts: entries is a sequence of <<name, location>>
RECURSIVE insert_all(_, _)
insert_all(tags, entries) ==
    IF entries = <<>> THEN tags
    ELSE CHOOSE r \in {insert_all(nxt, Tail(entries)) :
                          nxt \in {Tags_insert(tags, Head(entries)[1], Head(entries)[2])}} : TRUE

\* the names tag_request starts from, in the order of their insertion
seed_entries(is_human, rinfo) ==
    LET \* insert_qualified: the name is prefix:value
        Q(prefix, value, loc) == <<(<<prefix, ":">> \o value), loc>>
        F(flag, name) == IF Flag(flag) THEN << <<(<<name>>), Location("Ip")>> >> ELSE <<>>
    IN  << <<(IF is_human THEN <<"human">> ELSE <<"bot">>), Location("Request")>>,
           Q("headers", <<NatStr(Cardinality(DOMAIN rinfo.headers))>>, Location("Headers")),
           Q("cookies", <<NatStr(Cardinality(DOMAIN rinfo.cookies))>>, Location("Cookies")),
           Q("args", <<NatStr(Cardinality(DOMAIN rinfo.args))>>, Location("Request")),
           Q("host", rinfo.host, Location("Request")),
           Q("ip", rinfo.ipstr, Location("Ip")),
           Q("geo-continent-name", OrNil(rinfo.continent_name), Location("Ip")),
           Q("geo-continent-code", OrNil(rinfo.continent_code), Location("Ip")),
           Q("geo-city", OrNil(rinfo.city_name), Location("Ip")),
           Q("geo-org", OrNil(rinfo.company), Location("Ip")),
           Q("geo-country", OrNil(rinfo.country_name), Location("Ip")),
           Q("geo-region", OrNil(rinfo.region), Location("Ip")),
           Q("geo-subregion", OrNil(rinfo.subregion), Location("Ip")),
           Q("geo-asn", IF IsSome(rinfo.asn) THEN <<NatStr(Unwrap(rinfo.asn))>> ELSE <<"nil">>,
             Location("Ip")),
           Q("network", OrNil(rinfo.network), Location("Ip")) >>
        \o F(rinfo.is_proxy, "geo-anon")
        \o F(rinfo.is_satellite, "geo-sat")
        \o F(rinfo.is_vpn, "geo-vpn")
        \o F(rinfo.is_tor, "geo-tor")
        \o F(rinfo.is_relay, "geo-relay")
        \o F(rinfo.is_hosting, "geo-hosting")
        \o (IF IsSome(rinfo.privacy_service)
            THEN << Q("geo-privacy-service", Unwrap(rinfo.privacy_service), Location("Ip")) >>
            ELSE <<>>)
        \o F(rinfo.is_mobile, "geo-mobile")
        \o [i \in 1..Cardinality(rinfo.secpol_tags) |->
               <<SetToSeq(rinfo.secpol_tags)[i], Location("Request")>>]

\* the tags tag_request starts from
seed_tags(is_human, rinfo) == insert_all(Tags_new, seed_entries(is_human, rinfo))

\* the Identity arm of a matching section: the hash of every target header
identity_hashes(a, rinfo, tags) ==
    [k \in DOMAIN Unwrap(a.headers) |-> identity_hash_item(Unwrap(a.headers)[k], rinfo, tags)]

\* fingerprint_block that lets a request without browserfingerid header through
fingerprint_block_lenient(a, rinfo, env) ==
    IF a.atype.kind = "Fingerprint"
    THEN LET fingerprint == MapGet(rinfo.headers, "browserfingerid")
         IN  IF IsSome(fingerprint)
             THEN LET id == Unwrap(fingerprint)
                  IN  IF check_visitor_id(id, env.store) = FALSE
                      THEN fingerprint_check_visitors(id, env.provider) = FALSE
                      ELSE FALSE
             ELSE FALSE
    ELSE FALSE

\* the Fingerprint arm: does the visitor-id check turn the action into a
\* FingerprintBlock
fingerprint_block(a, rinfo, env) ==
    IF a.atype.kind = "Fingerprint"
    THEN LET fingerprint == MapGet(rinfo.headers, "browserfingerid")
         IN  IF IsSome(fingerprint)
             THEN LET id == Unwrap(fingerprint)
                  IN  IF check_visitor_id(id, env.store) = FALSE
                      THEN fingerprint_check_visitors(id, env.provider) = FALSE
                      ELSE FALSE
             ELSE TRUE
    ELSE FALSE

\* the decision a matching section with action a contributes
section_curdec(psection, a, mtch, rinfo, env) ==
    IF ~fingerprint_block(a, rinfo, env)
    THEN SAction(a, <<GfReason(psection.id, SimpleActionT_to_bdecision(a.atype), mtch.matched)>>)
    ELSE LET clone_a == [a EXCEPT !.atype = [kind |-> "FingerprintBlock", content |-> a.atype.content]]
         IN  SAction(clone_a,
                     <<GfReason(psection.id, SimpleActionT_to_bdecision(clone_a.atype), mtch.matched)>>)

\* tag_section with the headers of a Monitor section replacing the side map
tag_section_last_monitor(acc, psection, rinfo, env) ==
    LET mtch == check_rule(rinfo, acc.tags, psection.rule)
    IN  IF ~mtch.matching
        THEN [acc EXCEPT !.trace = Append(@, [matching |-> FALSE, added |-> {}])]
        ELSE
        LET tags == Tags_extend(acc.tags, Tags_with_raw_tags_locs(psection.tags, mtch.matched))
            counted == [acc EXCEPT !.matched = @ + 1, !.tags = tags,
                                   !.trace = Append(@, [matching |-> TRUE,
                                                        added |-> psection.tags])]
        IN  IF ~IsSome(psection.action) THEN counted
            ELSE
            LET a == Unwrap(psection.action)
                kind == a.atype.kind
            IN  IF kind = "Identity" /\ ~IsSome(a.headers)
                THEN [counted EXCEPT !.panic = TRUE]
                ELSE
                LET hashes == IF kind = "Identity" THEN identity_hashes(a, rinfo, tags)
                              ELSE [k \in {} |-> HashStart]
                    monitor_headers ==
                        IF kind = "Monitor"
                        THEN (IF IsSome(a.headers) THEN Unwrap(a.headers) ELSE EmptyMap)
                        ELSE MapExtend(acc.monitor_headers,
                                 [k \in DOMAIN hashes |->
                                     parse_request_template(Sha256(hashes[k].hash_item))])
                    identity ==
                        MapExtend(acc.identity,
                                  [k \in DOMAIN hashes |-> Sha256(hashes[k].hash_item)])
                    curdec == section_curdec(psection, a, mtch, rinfo, env)
                IN  IF \E k \in DOMAIN hashes : hashes[k].panic
                    THEN [counted EXCEPT !.panic = TRUE]
                    ELSE [counted EXCEPT
                             !.monitor_headers = monitor_headers,
                             !.identity = identity,
                             !.curdecs = Append(@, curdec),
                             !.decision = stronger_decision(acc.decision, curdec)]

\* the body of the loop over the global filter sections; acc holds the
\* locals of tag_request and the identity map of rinfo, and in trace, for
\* every section checked, mtch.matching and the names of the tags it added
tag_section(acc, psection, rinfo, env) ==
    LET mtch == check_rule(rinfo, acc.tags, psection.rule)
    IN  IF ~mtch.matching
        THEN [acc EXCEPT !.trace = Append(@, [matching |-> FALSE, added |-> {}])]
        ELSE
        LET tags == Tags_extend(acc.tags, Tags_with_raw_tags_locs(psection.tags, mtch.matched))
            counted == [acc EXCEPT !.matched = @ + 1, !.tags = tags,
                                   !.trace = Append(@, [matching |-> TRUE,
                                                        added |-> psection.tags])]
        IN  IF ~IsSome(psection.action) THEN counted
            ELSE
            LET a == Unwrap(psection.action)
                kind == a.atype.kind
            IN  IF kind = "Identity" /\ ~IsSome(a.headers)
                THEN [counted EXCEPT !.panic = TRUE]
                ELSE
                LET hashes == IF kind = "Identity" THEN identity_hashes(a, rinfo, tags)
                              ELSE [k \in {} |-> HashStart]
                    monitor_headers ==
                        IF kind = "Monitor"
                        THEN MapExtend(acc.monitor_headers,
                                       IF IsSome(a.headers) THEN Unwrap(a.headers) ELSE EmptyMap)
                        ELSE MapExtend(acc.monitor_headers,
                                 [k \in DOMAIN hashes |->
                                     parse_request_template(Sha256(hashes[k].hash_item))])
                    identity ==
                        MapExtend(acc.identity,
                                  [k \in DOMAIN hashes |-> Sha256(hashes[k].hash_item)])
                    curdec == section_curdec(psection, a, mtch, rinfo, env)
                IN  IF \E k \in DOMAIN hashes : hashes[k].panic
                    THEN [counted EXCEPT !.panic = TRUE]
                    ELSE [counted EXCEPT
                             !.monitor_headers = monitor_headers,
                             !.identity = identity,
                             !.curdecs = Append(@, curdec),
                             !.decision = stronger_decision(acc.decision, curdec)]

\* tag_sections going through the sections from the last to the first
RECURSIVE tag_sections_reversed(_, _, _, _)
tag_sections_reversed(acc, globalfilters, rinfo, env) ==
    IF globalfilters = <<>> \/ acc.panic THEN acc
    ELSE CHOOSE r \in {tag_sections_reversed(nxt, SubSeq(globalfilters, 1, Len(globalfilters) - 1),
                                             rinfo, env) :
                          nxt \in {tag_section(acc, globalfilters[Len(globalfilters)], rinfo, env)}} : TRUE

\* the loop of tag_request over the sections, in the configured order
RECURSIVE tag_sections(_, _, _, _)
tag_sections(acc, globalfilters, rinfo, env) ==
    IF globalfilters = <<>> \/ acc.panic THEN acc
    ELSE CHOOSE r \in {tag_sections(nxt, Tail(globalfilters), rinfo, env) :
                          nxt \in {tag_section(acc, Head(globalfilters), rinfo, env)}} : TRUE

\* tag_request that replaces the headers of a Monitor decision only
tag_request_monitor_only(is_human, globalfilters, rinfo, env) ==
    CHOOSE result \in
        { LET decision ==
                  IF acc.decision.tag = "Action" /\ acc.decision.action.atype.kind = "Monitor"
                  THEN [acc.decision EXCEPT !.action.headers = Some(acc.monitor_headers)]
                  ELSE acc.decision
          IN  [panic |-> acc.panic, tags |-> acc.tags, decision |-> decision,
               stats |-> [total |-> Len(globalfilters), matched |-> acc.matched],
               identity |-> acc.identity, curdecs |-> acc.curdecs, trace |-> acc.trace] :
          acc \in { tag_sections(start, globalfilters, rinfo, env) :
                    start \in { [tags |-> seed_tags(is_human, rinfo), matched |-> 0,
                                 decision |-> Pass, monitor_headers |-> EmptyMap,
                                 identity |-> rinfo.identity, curdecs |-> <<>>,
                                 trace |-> <<>>, panic |-> FALSE] } } } : TRUE

\* tag_request: (tags, decision, stats), the identity map it leaves in rinfo,
\* the per-section decisions in order, and whether the call panicked
tag_request(is_human, globalfilters, rinfo, env) ==
    CHOOSE result \in
        { LET decision ==
                  IF acc.decision.tag = "Action"
                     /\ acc.decision.action.atype.kind \in {"Monitor", "Identity"}
                  THEN [acc.decision EXCEPT !.action.headers = Some(acc.monitor_headers)]
                  ELSE acc.decision
          IN  [panic |-> acc.panic, tags |-> acc.tags, decision |-> decision,
               stats |-> [total |-> Len(globalfilters), matched |-> acc.matched],
               identity |-> acc.identity, curdecs |-> acc.curdecs, trace |-> acc.trace] :
          acc \in { tag_sections(start, globalfilters, rinfo, env) :
                    start \in { [tags |-> seed_tags(is_human, rinfo), matched |-> 0,
                                 decision |-> Pass, monitor_headers |-> EmptyMap,
                                 identity |-> rinfo.identity, curdecs |-> <<>>,
                                 trace |-> <<>>, panic |-> FALSE] } } } : TRUE

(***************************************************************************)
(* Embedding API (curiefense-lua/src/lib.rs).  A Lua value is a record     *)
(* with its type; a Rust Result is a record with the flag ok.              *)
(***************************************************************************)
LuaNil == [ty |-> "nil"]
LuaValue(ty, v) == [ty |-> ty, v |-> v]

Ok(x) == [ok |-> TRUE, v |-> x]
Err(e) == [ok |-> FALSE, err |-> e]

LogLevelOf(m) ==
    CASE m = "debug" -> Some("Debug")
      [] m = "info" -> Some("Info")
      [] m \in {"warn", "warning"} -> Some("Warning")
      [] m \in {"err", "error"} -> Some("Error")
      [] OTHER -> None

\* extract_ip: the address hops places from the right of x-forwarded-for
extract_ip(hops, headers) ==
    IF "x-forwarded-for" \in DOMAIN headers
       /\ hops >= 1 /\ hops <= Len(headers["x-forwarded-for"])
    THEN LET xff == headers["x-forwarded-for"]
         IN  Some(<<xff[Len(xff) - hops + 1]>>)
    ELSE None

lua_convert_args(args) ==
    IF args.loglevel.ty /= "string"
    THEN Err("Could not convert the loglevel argument")
    ELSE IF ~IsSome(LogLevelOf(args.loglevel.v))
    THEN Err("Invalid log level")
    ELSE IF args.meta.ty /= "table"
    THEN Err("Could not convert the meta argument")
    ELSE IF args.headers.ty /= "table"
    THEN Err("Could not convert the headers argument")
    ELSE IF args.body.ty \notin {"nil", "string"}
    THEN Err("Could not convert the body argument")
    ELSE IF args.ip.ty /= "string"
    THEN Err("Could not convert the ip argument")
    ELSE IF args.hops.ty \notin {"nil", "number"}
    THEN Err("Could not convert the hops argument")
    ELSE IF args.secpolid.ty \notin {"nil", "string"}
    THEN Err("Could not convert the hops argument")
    ELSE IF args.configpath.ty \notin {"nil", "string"}
    THEN Err("Could not convert the config path argument")
    ELSE IF args.plugins.ty \notin {"nil", "table"}
    THEN Err("Could not convert the plugins argument")
    ELSE LET headers == args.headers.v
             fromhops == IF args.hops.ty = "nil" THEN None
                         ELSE extract_ip(args.hops.v, headers)
         IN  Ok([meta |-> args.meta.v,
                 headers |-> headers,
                 lua_body |-> IF args.body.ty = "nil" THEN None ELSE Some(args.body.v),
                 str_ip |-> IF IsSome(fromhops) THEN Unwrap(fromhops) ELSE args.ip.v,
                 loglevel |-> Unwrap(LogLevelOf(args.loglevel.v)),
                 secpolid |-> IF args.secpolid.ty = "nil" THEN None ELSE Some(args.secpolid.v),
                 humanity |-> CASE args.human.ty = "nil" -> None
                                [] args.human.ty = "boolean" -> Some(args.human.v)
                                [] OTHER -> Some(TRUE),
                 configpath |-> IF args.configpath.ty = "nil"
                                THEN "/cf-config/current/config" ELSE args.configpath.v,
                 plugins |-> IF args.plugins.ty = "nil" THEN EmptyMap ELSE args.plugins.v])

(***************************************************************************)
(* The analysis core behind the embedding API: configuration lookup and    *)
(* the three analysis stages.  A configuration is loaded or not, its       *)
(* tagging verdict is terminal or not.                                     *)
(***************************************************************************)
Logs_new(level) == [level |-> level, logs |-> <<>>]
Logs_debug(logs, msg) ==
    IF logs.level = "Debug" THEN [logs EXCEPT !.logs = Append(@, msg)] ELSE logs

RequestMeta_from_map(meta) ==
    IF {"method", "path"} \subseteq DOMAIN meta THEN Ok(meta) ELSE Err("missing method or path field")

Decision_pass(reasons) == [maction |-> None, reasons |-> reasons]
Decision_action(action, reasons) == [maction |-> Some(action), reasons |-> reasons]

\* the verdict of the flow checks and of the rate limits on the answers of
\* the embedder: no answer is no restriction
results_verdict(initiator, results) ==
    IF \E i \in 1..Len(results) : results[i].exceeded
    THEN Decision_action(Action_default,
             <<[initiator |-> initiator, decision |-> "Blocking", id |-> "", locations |-> {}]>>)
    ELSE Decision_pass(<<>>)

inspect_generic_request_map_init(cfg, raw) ==
    IF cfg.loaded THEN Ok([raw |-> raw, cfg |-> cfg])
    ELSE Err([decision |-> Decision_pass(<<>>), raw |-> raw])

analyze_init(p0) ==
    IF p0.cfg.terminal
    THEN [tag |-> "Res", r |-> [decision |-> p0.cfg.verdict, raw |-> p0.raw]]
    ELSE [tag |-> "Phase1", p1 |-> [raw |-> p0.raw, verdict |-> p0.cfg.verdict]]

APhase2O_from_phase1(p1, flow_results) == [p1 EXCEPT !.verdict = @] @@ [flow_results |-> flow_results]

analyze_flows(p2o) ==
    [raw |-> p2o.raw,
     verdict |-> merge_decisions(p2o.verdict, results_verdict("RateLimit", p2o.flow_results))]

APhase3_from_phase2(p2, limit_results) == p2 @@ [limit_results |-> limit_results]

analyze_finish(p3) ==
    [decision |-> merge_decisions(p3.verdict, results_verdict("RateLimit", p3.limit_results)),
     raw |-> p3.raw]

\* the one-shot analysis chains the three stages without any answer
inspect_generic_request_map(cfg, raw) ==
    LET p0 == inspect_generic_request_map_init(cfg, raw)
    IN  IF ~p0.ok THEN p0.err
        ELSE LET r == analyze_init(p0.v)
             IN  IF r.tag = "Res" THEN r.r
                 ELSE analyze_finish(
                          APhase3_from_phase2(
                              analyze_flows(APhase2O_from_phase1(r.p1, <<>>)), <<>>))

InspectionResult_from_analyze(logs, dec) == [decision |-> dec.decision, logs |-> logs]

(***************************************************************************)
(* Rust-native entry points and their Lua wrappers.  Every wrapper returns *)
(* the value handed to the proxy and the blocking lookups made on the way. *)
(***************************************************************************)
inspect_request(cfg, lua_args) ==
    LET logs == Logs_debug(Logs_new("Debug"), "Inspection init")
        rmeta == RequestMeta_from_map(lua_args.meta)
    IN  IF ~rmeta.ok THEN Err(rmeta.err)
        ELSE LET raw == [ipstr |-> lua_args.str_ip, meta |-> rmeta.v,
                         headers |-> lua_args.headers, mbody |-> lua_args.lua_body]
             IN  Ok(InspectionResult_from_analyze(logs, inspect_generic_request_map(cfg, raw)))

\* the visitor-id check of inspect_init: the lookups it makes, in order
inspect_init_lookups(headers, env) ==
    IF "browserfingerid" \in DOMAIN headers
    THEN IF check_visitor_id(headers["browserfingerid"], env.store) = FALSE
         THEN <<"store", "provider">>
         ELSE <<"store">>
    ELSE <<>>

inspect_init(cfg, lua_args, env) ==
    LET logs0 == Logs_debug(Logs_new(lua_args.loglevel), "Inspection init")
        rmeta == RequestMeta_from_map(lua_args.meta)
    IN  IF ~rmeta.ok THEN Err(rmeta.err)
        ELSE
        LET raw == [ipstr |-> lua_args.str_ip, meta |-> rmeta.v,
                    headers |-> lua_args.headers, mbody |-> lua_args.lua_body]
            fingerprint == MapGet(raw.headers, "browserfingerid")
        IN  IF ~IsSome(fingerprint)
            THEN Err("visitorID does not exist")
            ELSE
            LET id == Unwrap(fingerprint)
                logs1 == Logs_debug(logs0, "visitorID")
                logs ==
                    IF check_visitor_id(id, env.store) = FALSE
                    THEN IF fingerprint_check_visitors(id, env.provider) = FALSE
                         THEN Logs_debug(Logs_debug(logs1, "check fingerprint saas"), "not found in saas")
                         ELSE Logs_debug(Logs_debug(logs1, "check fingerprint saas"), "found in saas")
                    ELSE Logs_debug(logs1, "found in redis")
                p0 == inspect_generic_request_map_init(cfg, raw)
            IN  IF ~p0.ok
                THEN Ok([r |-> [tag |-> "Res", r |-> p0.err], logs |-> logs])
                ELSE Ok([r |-> analyze_init(p0.v), logs |-> logs])

P0Result(r) == [tag |-> "P0Result", r |-> r]
P0Error(e) == [tag |-> "P0Error", err |-> e]
P1(logs, p) == [tag |-> "P1", logs |-> logs, p |-> p]

lua_inspect_request(cfg, args) ==
    LET conv == lua_convert_args(args)
    IN  IF conv.ok THEN inspect_request(cfg, conv.v) ELSE Err(conv.err)

lua_inspect_init(cfg, args, env) ==
    LET conv == lua_convert_args(args)
    IN  IF ~conv.ok THEN P0Error(conv.err)
        ELSE LET res == inspect_init(cfg, conv.v, env)
             IN  IF ~res.ok THEN P0Error(res.err)
                 ELSE IF res.v.r.tag = "Res"
                      THEN P0Result(InspectionResult_from_analyze(res.v.logs, res.v.r.r))
                      ELSE P1(res.v.logs, res.v.r.p1)

\* the handle of a stage as the Lua side holds it: a userdata of the phase
\* type of the stage that made it
UserData(phase, r) == LuaValue("userdata", [phase |-> phase, r |-> r])

\* FromLua of LInitResult<phase>: a userdata of that very type
LInitResult_from_lua(phase, value) ==
    IF value.ty /= "userdata" THEN Err("userdata expected")
    ELSE IF value.v.phase /= phase THEN Err("userdata of another type")
    ELSE Ok(value.v.r)

\* FromLua of Vec<LuaFlowResult> / Vec<LuaLimitResult>: a table
Vec_from_lua(value) ==
    IF value.ty = "table" THEN Ok(value.v) ELSE Err("table expected")

\* the ? operator on a failed conversion: the call raises a Lua error
\* (tag Raised) instead of returning a value
lua_inspect_flows(lpr1, lflow_results) ==
    LET conv1 == LInitResult_from_lua("APhase1", lpr1)
        flow_results == Vec_from_lua(lflow_results)
    IN  IF ~conv1.ok THEN [tag |-> "Raised", err |-> conv1.err]
        ELSE IF ~flow_results.ok THEN [tag |-> "Raised", err |-> flow_results.err]
        ELSE CASE conv1.v.tag = "P0Result" -> conv1.v
               [] conv1.v.tag = "P0Error" -> conv1.v
               [] conv1.v.tag = "P1" ->
                     P1(conv1.v.logs,
                        analyze_flows(APhase2O_from_phase1(conv1.v.p, flow_results.v)))

\* lua_inspect_process that accepts a finished inspection result as its
\* first parameter and returns it
lua_inspect_process_lenient(lpred, llimit_results) ==
    LET conv == LInitResult_from_lua("APhase2I", lpred)
        limit_results == Vec_from_lua(llimit_results)
    IN  IF ~conv.ok THEN Err(<<"Could not convert the pred(2I) argument", conv.err>>)
        ELSE IF ~limit_results.ok
        THEN Err(<<"Could not convert the limit_result argument", limit_results.err>>)
        ELSE CASE conv.v.tag = "P0Result" -> Ok(conv.v.r)
               [] conv.v.tag = "P0Error" -> Err(<<"The first parameter is an error", conv.v.err>>)
               [] conv.v.tag = "P1" ->
                     Ok(InspectionResult_from_analyze(
                            conv.v.logs,
                            analyze_finish(APhase3_from_phase2(conv.v.p, limit_results.v))))

lua_inspect_process(lpred, llimit_results) ==
    LET conv == LInitResult_from_lua("APhase2I", lpred)
        limit_results == Vec_from_lua(llimit_results)
    IN  IF ~conv.ok THEN Err(<<"Could not convert the pred(2I) argument", conv.err>>)
        ELSE IF ~limit_results.ok
        THEN Err(<<"Could not convert the limit_result argument", limit_results.err>>)
        ELSE CASE conv.v.tag = "P0Result" ->
                     Err("The first parameter is an inspection result, and should not have been used here!")
               [] conv.v.tag = "P0Error" -> Err(<<"The first parameter is an error", conv.v.err>>)
               [] conv.v.tag = "P1" ->
                     Ok(InspectionResult_from_analyze(
                            conv.v.logs,
                            analyze_finish(APhase3_from_phase2(conv.v.p, limit_results.v))))

(***************************************************************************)
(* Inputs of the decision algebra                                          *)
(***************************************************************************)
PlainSimpleActions ==
    [atype : SimpleActionTs, headers : {None}, status : Statuses, extra_tags : {None}]

PlainReasons(a) ==
    {<<>>} \cup {<<GfReason(id, SimpleActionT_to_bdecision(a.atype), {})>> : id \in {"gf1", "gf2"}}

PlainSimpleDecisions ==
    {Pass} \cup UNION {{SAction(a, r) : r \in PlainReasons(a)} : a \in PlainSimpleActions}

(***************************************************************************)
(* Inputs of tag_request                                                   *)
(***************************************************************************)
Ip4(a) == [v |-> 4, a |-> a]
VisitorId == <<"K", "Q">>

\* a request from 52.78.12.56 without headers and without geo attributes
BaseRinfo ==
    [ip |-> Some(Ip4("52.78.12.56")), ipstr |-> <<"52.78.12.56">>,
     country_iso |-> None, country_name |-> None, region |-> None, subregion |-> None,
     continent_name |-> None, continent_code |-> None, city_name |-> None,
     company |-> None, network |-> None, asn |-> None,
     is_proxy |-> None, is_satellite |-> None, is_vpn |-> None, is_tor |-> None,
     is_relay |-> None, is_hosting |-> None, is_mobile |-> None, privacy_service |-> None,
     qpath |-> <<"/", "a">>, query |-> <<"x">>, uri |-> <<"/", "a", "?", "x">>,
     method |-> <<"GET">>, host |-> <<"localhost">>,
     headers |-> EmptyMap, cookies |-> EmptyMap, args |-> EmptyMap, plugins |-> EmptyMap,
     secpolid |-> "pol", secentryid |-> "entry", secpol_tags |-> {},
     identity |-> EmptyMap]

TagRinfos ==
    { BaseRinfo,
      [BaseRinfo EXCEPT !.headers = [k \in {"browserfingerid"} |-> VisitorId]],
      [BaseRinfo EXCEPT !.headers = [k \in {"browserfingerid", "user-agent"} |->
                                        IF k = "user-agent" THEN <<"c", "u", "r", "l">> ELSE VisitorId],
                        !.ip = Some(Ip4("52.78.12.57")), !.ipstr = <<"52.78.12.57">>] }

QuietEnv ==
    [store |-> [reachable |-> FALSE, ids |-> {}], provider |-> [reachable |-> FALSE, ids |-> {}]]

Envs ==
    [store : {[reachable |-> FALSE, ids |-> {}], [reachable |-> TRUE, ids |-> {}],
              [reachable |-> TRUE, ids |-> {VisitorId}]},
     provider : {[reachable |-> FALSE, ids |-> {}], [reachable |-> TRUE, ids |-> {}],
                 [reachable |-> TRUE, ids |-> {VisitorId}]}]

Entry(negated, e) == [kind |-> "Entry", negated |-> negated, entry |-> e]
Rel(relation, entries) == [kind |-> "Rel", relation |-> relation, entries |-> entries]

BadTag == <<"bad">>

SimpleActionOf(atype, headers, status) ==
    [atype |-> atype, headers |-> headers, status |-> status, extra_tags |-> None]

Kind(k) == [kind |-> k, content |-> ""]

\* the rules drawn, with the tags they add
SectionRules ==
    [Always |-> [rule |-> Entry(FALSE, [t |-> "Always", v |-> TRUE]), tags |-> {BadTag}],
     Ip |-> [rule |-> Entry(FALSE, [t |-> "Ip", addr |-> Ip4("52.78.12.56")]),
             tags |-> {<<"seen">>}],
     Tag |-> [rule |-> Rel("And",
                           << Entry(FALSE, [t |-> "Tag", single |-> [exact |-> BadTag, re |-> None]]),
                              Entry(TRUE, [t |-> "Ip", addr |-> Ip4("52.78.12.57")]) >>),
              tags |-> {}]]

\* the actions drawn
SectionActions ==
    [Monitor |-> SimpleActionOf(Kind("Monitor"), Some([k \in {"h1"} |-> <<Raw(<<"v1">>)>>]), 200),
     Skip |-> SimpleActionOf(Kind("Skip"), None, 200),
     Custom |-> SimpleActionOf([kind |-> "Custom", content |-> "blocked"], None, 403),
     Challenge |-> SimpleActionOf(Kind("Challenge"), None, 503),
     Identity |->
         SimpleActionOf(Kind("Identity"),
                        Some([k \in {"h2"} |->
                                 <<SelVar([kind |-> "Ip"]), Raw(<<"u">>),
                                   SelVar([kind |-> "Header", key |-> "user-agent"])>>]),
                        200),
     IdentityEmpty |-> SimpleActionOf(Kind("Identity"), Some([k \in {"h3"} |-> <<>>]), 200),
     IdentityTag |->
         SimpleActionOf(Kind("Identity"),
                        Some([k \in {"h4"} |-> <<SelVar([kind |-> "Ip"]), TagVar(BadTag)>>]), 200),
     IdentityNoHeaders |-> SimpleActionOf(Kind("Identity"), None, 200),
     IdentityBadRegex |->
         SimpleActionOf(Kind("Identity"),
                        Some([k \in {"h5"} |-> <<Raw(<<"(">>), SelVar([kind |-> "Ip"])>>]), 200),
     Fingerprint |-> SimpleActionOf([kind |-> "Fingerprint", content |-> "fp"], None, 503),
     Fingerprint403 |->
         SimpleActionOf([kind |-> "Fingerprint", content |-> "blocked"],
                        Some([k \in {"h1"} |-> <<TagVar(BadTag)>>]), 403)]

\* the sections drawn: a rule, the tags it adds, an optional action
SectionBodies ==
    LET A == SectionActions
    IN  [body : {SectionRules.Always},
         action : {None, Some(A.Monitor), Some(A.Skip), Some(A.Custom), Some(A.Challenge),
                   Some(A.Identity), Some(A.IdentityEmpty), Some(A.IdentityTag),
                   Some(A.IdentityNoHeaders), Some(A.IdentityBadRegex), Some(A.Fingerprint),
                   Some(A.Fingerprint403)}]
        \cup [body : {SectionRules.Ip}, action : {None, Some(A.Monitor), Some(A.Fingerprint)}]
        \cup [body : {SectionRules.Tag},
              action : {Some(A.Custom), Some(A.Skip), Some(A.Identity)}]

SectionId(i) == CASE i = 1 -> "gf1" [] i = 2 -> "gf2" [] i = 3 -> "gf3" [] OTHER -> "gfn"

\* the section lists drawn: the sections are numbered by position
SectionLists ==
    { [i \in 1..Len(q) |->
          [id |-> SectionId(i), rule |-> q[i].body.rule, tags |-> q[i].body.tags,
           action |-> q[i].action]] :
      q \in SeqsUpTo(SectionBodies, MaxSections) }

NotTagged ==
    [panic |-> FALSE, tags |-> Tags_new, decision |-> Pass,
     stats |-> [total |-> 0, matched |-> 0], identity |-> EmptyMap, curdecs |-> <<>>,
     trace |-> <<>>]

(***************************************************************************)
(* Inputs of the embedding API                                             *)
(***************************************************************************)
NotRun == [tag |-> "NotRun"]

BaseArgs ==
    [loglevel |-> LuaValue("string", "debug"),
     meta |-> LuaValue("table", [k \in {"method", "path"} |->
                                   IF k = "method" THEN <<"GET">> ELSE <<"/", "a">>]),
     headers |-> LuaValue("table", EmptyMap), body |-> LuaNil,
     ip |-> LuaValue("string", <<"52.78.12.56">>), hops |-> LuaNil, secpolid |-> LuaNil,
     human |-> LuaNil, configpath |-> LuaNil, plugins |-> LuaNil]

\* the argument tables drawn: well-formed ones with and without visitor id,
\* and ill-formed ones
InspectArgs ==
    LET MetaNoPath == [k \in {"method"} |-> <<"GET">>]
        ForwardedHeaders == [k \in {"x-forwarded-for"} |-> <<"10.0.0.1", "52.78.12.57">>]
        VisitorArgs ==
            [BaseArgs EXCEPT !.headers = LuaValue("table", [k \in {"browserfingerid"} |-> VisitorId])]
    IN  << BaseArgs,
           VisitorArgs,
           [BaseArgs EXCEPT !.loglevel = LuaValue("string", "error")],
           [BaseArgs EXCEPT !.headers = LuaValue("table", ForwardedHeaders),
                            !.hops = LuaValue("number", 1)],
           [BaseArgs EXCEPT !.body = LuaValue("string", "b"), !.human = LuaValue("boolean", TRUE)],
           [VisitorArgs EXCEPT !.loglevel = LuaValue("string", "info"),
                               !.secpolid = LuaValue("string", "pol")],
           [VisitorArgs EXCEPT !.meta = LuaValue("table", MetaNoPath)],
           [BaseArgs EXCEPT !.meta = LuaValue("table", MetaNoPath)],
           [BaseArgs EXCEPT !.loglevel = LuaValue("string", "loud")],
           [BaseArgs EXCEPT !.loglevel = LuaNil],
           [VisitorArgs EXCEPT !.meta = LuaNil],
           [BaseArgs EXCEPT !.headers = LuaValue("number", 7)],
           [VisitorArgs EXCEPT !.ip = LuaNil],
           [VisitorArgs EXCEPT !.plugins = LuaValue("string", "p")] >>

NoConfig == [loaded |-> FALSE, terminal |-> FALSE, verdict |-> Decision_pass(<<>>)]

Configs ==
    { NoConfig,
      [loaded |-> TRUE, terminal |-> FALSE, verdict |-> Decision_pass(<<>>)],
      [loaded |-> TRUE, terminal |-> FALSE,
       verdict |-> Decision_action([Action_default EXCEPT !.atype = "Monitor"],
                                   <<GfReason("gf", "Monitor", {})>>)],
      [loaded |-> TRUE, terminal |-> TRUE,
       verdict |-> Decision_action([Action_default EXCEPT !.atype = "Skip"],
                                   <<GfReason("gf", "Skip", {})>>)],
      [loaded |-> TRUE, terminal |-> TRUE,
       verdict |-> Decision_action(Action_default, <<GfReason("gf", "Blocking", {})>>)] }

\* what the embedder passes to the later stages: the flow results, the limit
\* results, and the handle of the previous stage or (handles lost) nil
NoAnswers ==
    [flow_results |-> LuaValue("table", <<>>), limit_results |-> LuaValue("table", <<>>),
     handles |-> "kept"]

\* the result values drawn: lists of results, and values that are no list
ResultValues ==
    << LuaValue("table", <<>>), LuaValue("table", <<[exceeded |-> FALSE]>>),
       LuaValue("table", <<[exceeded |-> TRUE]>>), LuaNil >>

(***************************************************************************)
(* The optimization of a rule (tagging.rs tests, config::globalfilter)     *)
(***************************************************************************)
\* the IPv4 addresses drawn; a network is the set of the drawn addresses it
\* contains
Ip4Space ==
    {Ip4("192.168.0.23"), Ip4("192.168.1.23"), Ip4("192.170.2.45"), Ip4("52.78.12.56")}

\* optimize_ipranges: the network entries of a relation are fused into one
\* range entry without negation (And: the intersection, a negated network
\* standing for its complement; Or: the union); the other entries are kept
optimize_ipranges(relation, entries) ==
    LET isnet(i) == entries[i].kind = "Entry" /\ entries[i].entry.t = "Network"
        nets == {i \in 1..Len(entries) : isnet(i)}
        range(i) == IF entries[i].negated THEN Ip4Space \ entries[i].entry.net
                    ELSE entries[i].entry.net
        fused == IF relation = "And"
                 THEN {ip \in Ip4Space : \A i \in nets : ip \in range(i)}
                 ELSE UNION {range(i) : i \in nets}
        RECURSIVE others(_)
        others(i) == IF i > Len(entries) THEN <<>>
                     ELSE IF isnet(i) THEN others(i + 1)
                     ELSE <<entries[i]>> \o others(i + 1)
    IN  IF nets = {} THEN others(1)
        ELSE others(1) \o <<[kind |-> "Entry", negated |-> FALSE,
                              entry |-> [t |-> "Range4", net |-> fused]]>>

\* optimize with an empty result replaced by Always(true) whatever the relation
optimize_always_true(ss) ==
    IF ss.kind = "Rel"
    THEN LET entries == optimize_ipranges(ss.relation, ss.entries)
         IN  IF entries = <<>>
             THEN [kind |-> "Entry", negated |-> FALSE, entry |-> [t |-> "Always", v |-> TRUE]]
             ELSE IF Len(entries) = 1 THEN entries[1]
             ELSE [kind |-> "Rel", relation |-> ss.relation, entries |-> entries]
    ELSE ss

optimize(ss) ==
    IF ss.kind = "Rel"
    THEN LET entries == optimize_ipranges(ss.relation, ss.entries)
         IN  IF entries = <<>>
             THEN [kind |-> "Entry", negated |-> FALSE,
                   entry |-> [t |-> "Always", v |-> ss.relation = "And"]]
             ELSE IF Len(entries) = 1 THEN entries[1]
             ELSE [kind |-> "Rel", relation |-> ss.relation, entries |-> entries]
    ELSE ss

\* the inputs of the matcher: the entries drawn as children of a relation,
\* the entries drawn on their own, and the requests
MatchInputs ==
    LET single(x) == [exact |-> x, re |-> None]
        both(es) == {Entry(n, e) : n \in BOOLEAN, e \in es}
        net23 == {Ip4("192.168.0.23"), Ip4("192.168.1.23")}
        net24 == {Ip4("192.168.1.23")}
        net0 == {Ip4("192.168.0.23")}
        nets == {[t |-> "Network", net |-> n] : n \in {net23, net24, net0}}
        geo == [BaseRinfo EXCEPT !.ip = Some(Ip4("192.168.1.23")), !.ipstr = <<"192.168.1.23">>,
                                 !.country_iso = Some(<<"US">>), !.region = Some(<<"NY">>),
                                 !.subregion = Some(<<"kings">>), !.asn = Some(7),
                                 !.company = Some(<<"acme">>)]
    IN  [children |->
             both(nets) \cup both({[t |-> "Always", v |-> TRUE]})
                 \cup both({[t |-> "Path", single |-> single(<<"/", "a">>)]})
                 \cup both({[t |-> "Country", single |-> single(<<"us">>)]}),
         entries |->
             both({[t |-> "Ip", addr |-> Ip4("192.168.1.23")]})
                 \cup both({[t |-> "Range4", net |-> net24]})
                 \cup both({[t |-> "Range6", net |-> {[v |-> 6, a |-> "::1"]}]})
                 \cup both({[t |-> "Region", single |-> single(<<"ny">>)]})
                 \cup both({[t |-> "SubRegion", single |-> single(<<"kings">>)]})
                 \cup both({[t |-> "Asn", asn |-> 7]})
                 \cup both({[t |-> "Company", single |-> single(<<"acme">>)]})
                 \cup both({[t |-> "Query", single |-> single(q)] : q \in {<<"x">>, <<"/", "a">>}})
                 \cup both({[t |-> "Always", v |-> FALSE]}),
         rinfos |->
             { BaseRinfo, geo,
               [BaseRinfo EXCEPT !.ip = None, !.ipstr = <<"nil">>],
               [geo EXCEPT !.ip = Some(Ip4("192.168.0.23")), !.ipstr = <<"192.168.0.23">>],
               [geo EXCEPT !.ip = Some([v |-> 6, a |-> "::1"]), !.ipstr = <<"::1">>] }]

(***************************************************************************)
NoDecision == [maction |-> None, reasons |-> <<>>]

StrongerIdle ==
    /\ s1 = Pass /\ s2 = Pass /\ s3 = Pass
    /\ s12 = Pass /\ s21 = Pass /\ sL = Pass /\ sR = Pass

MergeIdle == d1 = NoDecision /\ d2 = NoDecision /\ merged = NoDecision

TagIdle ==
    /\ human = FALSE
    /\ filters = <<>>
    /\ request = BaseRinfo
    /\ lookups = QuietEnv
    /\ tagged = NotTagged
    /\ rendered = None
    /\ logrec = None
    /\ verdict = None

InspectIdle ==
    /\ table = BaseArgs
    /\ config = NoConfig
    /\ answers = NoAnswers
    /\ oneshot = NotRun /\ pr1 = NotRun /\ pr2 = NotRun /\ staged = NotRun
    /\ io = <<>>

MatchIdle ==
    /\ mrule = SectionRules.Always.rule
    /\ mreq = BaseRinfo
    /\ mres = NoMatch
    /\ mopt = NotRun

(***************************************************************************)
(* Specification of merge_decisions: Init draws the two decisions, the     *)
(* action applies the function.                                            *)
(***************************************************************************)
InitMerge ==
    /\ pc = "merge"
    /\ d1 \in Decisions
    /\ d2 \in Decisions
    /\ merged = NoDecision
    /\ StrongerIdle
    /\ TagIdle
    /\ InspectIdle
    /\ MatchIdle

MergeDecisions ==
    /\ pc = "merge"
    /\ merged' = merge_decisions(d1, d2)
    /\ pc' = "merged"
    /\ UNCHANGED <<d1, d2>>
    /\ UNCHANGED <<strongerVars, tagVars, inspectVars, matchVars>>

NextMerge == MergeDecisions

SpecMerge == InitMerge /\ [][NextMerge]_vars

(***************************************************************************)
(* Specification of stronger_decision                                      *)
(***************************************************************************)
InitStronger ==
    /\ pc = "stronger"
    /\ s1 \in PlainSimpleDecisions
    /\ s2 \in PlainSimpleDecisions
    /\ s3 \in PlainSimpleDecisions
    /\ s12 = Pass /\ s21 = Pass /\ sL = Pass /\ sR = Pass
    /\ MergeIdle
    /\ TagIdle
    /\ InspectIdle
    /\ MatchIdle

StrongerDecision ==
    /\ pc = "stronger"
    /\ s12' = stronger_decision(s1, s2)
    /\ s21' = stronger_decision(s2, s1)
    /\ sL' = stronger_decision(stronger_decision(s1, s2), s3)
    /\ sR' = stronger_decision(s1, stronger_decision(s2, s3))
    /\ pc' = "stronger_done"
    /\ UNCHANGED <<s1, s2, s3>>
    /\ UNCHANGED <<mergeVars, tagVars, inspectVars, matchVars>>

NextStronger == StrongerDecision

SpecStronger == InitStronger /\ [][NextStronger]_vars

(***************************************************************************)
(* Specification of tag_request, followed by the rendering of the action   *)
(* of its decision                                                         *)
(***************************************************************************)
\* is_human is drawn when a section has a Challenge action, the action whose
\* rendering depends on it; the lookups are drawn when a section has a
\* Fingerprint action, the only action that consults them
InitTag ==
    /\ pc = "tag"
    /\ filters \in SectionLists
    /\ LET has(kind) == \E i \in 1..Len(filters) :
                            /\ IsSome(filters[i].action)
                            /\ Unwrap(filters[i].action).atype.kind = kind
       IN  /\ human \in IF has("Challenge") THEN BOOLEAN ELSE {FALSE}
           /\ lookups \in IF has("Fingerprint") THEN Envs ELSE {QuietEnv}
    /\ request \in TagRinfos
    /\ tagged = NotTagged
    /\ rendered = None
    /\ logrec = None
    /\ verdict = None
    /\ MergeIdle
    /\ StrongerIdle
    /\ InspectIdle
    /\ MatchIdle

\* tag_request returns, or panics
TagRequest ==
    /\ pc = "tag"
    /\ tagged' = tag_request(human, filters, request, lookups)
    /\ request' = [request EXCEPT !.identity = tagged'.identity]
    /\ pc' = IF tagged'.panic THEN "panicked" ELSE "tagged"
    /\ UNCHANGED <<human, filters, lookups, rendered, logrec, verdict>>
    /\ UNCHANGED <<mergeVars, strongerVars, inspectVars, matchVars>>

\* to_action on the action of the tagging decision
RenderDecision ==
    /\ pc = "tagged"
    /\ tagged.decision.tag = "Action"
    /\ rendered' = to_action(tagged.decision.action, request, tagged.tags, human)
    /\ pc' = "rendered"
    /\ UNCHANGED <<human, filters, request, lookups, tagged, logrec, verdict>>
    /\ UNCHANGED <<mergeVars, strongerVars, inspectVars, matchVars>>

\* Decision::log_json, or a log with the response code of the proxy, on the
\* decision made of the rendered action
JsonLog ==
    /\ pc = "rendered"
    /\ \E rcode \in {None, IF IsSome(rendered) THEN Some(Unwrap(rendered).status)
                             ELSE Some(200)} :
          logrec' = Some(jsonlog_rinfo([maction |-> rendered,
                                        reasons |-> tagged.decision.reasons],
                                       rcode, tagged.tags))
    /\ pc' = "logged"
    /\ UNCHANGED <<human, filters, request, lookups, tagged, rendered, verdict>>
    /\ UNCHANGED <<mergeVars, strongerVars, inspectVars, matchVars>>

\* to_decision on the action of the tagging decision; the oracle matters to
\* a Challenge action only
ToDecision ==
    /\ pc = "tagged"
    /\ tagged.decision.tag = "Action"
    /\ \E mgh \in IF tagged.decision.action.atype.kind = "Challenge"
                   THEN {None, Some([answers |-> TRUE]), Some([answers |-> FALSE])}
                   ELSE {None} :
          verdict' = Some([mgh |-> mgh,
                           out |-> to_decision(tagged.decision.action, human, mgh, request,
                                               tagged.tags, tagged.decision.reasons)])
    /\ pc' = "decided"
    /\ UNCHANGED <<human, filters, request, lookups, tagged, rendered, logrec>>
    /\ UNCHANGED <<mergeVars, strongerVars, inspectVars, matchVars>>

NextTag == TagRequest \/ RenderDecision \/ JsonLog \/ ToDecision

SpecTag == InitTag /\ [][NextTag]_vars

(***************************************************************************)
(* Specification of the embedding API: the one-shot inspection and the     *)
(* staged chain on the same arguments, configuration and lookups           *)
(***************************************************************************)
InitInspect ==
    /\ pc = "request"
    /\ \E i \in 1..Len(InspectArgs) : table = InspectArgs[i]
    /\ config \in Configs
    /\ \E i, j \in 1..Len(ResultValues), h \in {"kept", "lost"} :
          answers = [flow_results |-> ResultValues[i], limit_results |-> ResultValues[j],
                     handles |-> h]
    /\ lookups \in Envs
    /\ oneshot = NotRun /\ pr1 = NotRun /\ pr2 = NotRun /\ staged = NotRun
    /\ io = <<>>
    /\ human = FALSE /\ filters = <<>> /\ request = BaseRinfo
    /\ tagged = NotTagged /\ rendered = None /\ logrec = None /\ verdict = None
    /\ MergeIdle
    /\ StrongerIdle
    /\ MatchIdle

LuaInspectRequest ==
    /\ pc = "request"
    /\ oneshot' = lua_inspect_request(config, table)
    /\ pc' = "init"
    /\ UNCHANGED <<table, config, answers, pr1, pr2, staged, io>>
    /\ UNCHANGED <<mergeVars, strongerVars, tagVars, matchVars>>

LuaInspectInit ==
    /\ pc = "init"
    /\ pr1' = lua_inspect_init(config, table, lookups)
    /\ io' = LET conv == lua_convert_args(table)
             IN  IF conv.ok /\ RequestMeta_from_map(conv.v.meta).ok
                 THEN inspect_init_lookups(conv.v.headers, lookups)
                 ELSE <<>>
    /\ pc' = "flows"
    /\ UNCHANGED <<table, config, answers, oneshot, pr2, staged>>
    /\ UNCHANGED <<mergeVars, strongerVars, tagVars, matchVars>>

\* the Lua value the embedder passes as the handle r of the given phase
Handle(phase, r) ==
    IF answers.handles = "lost" \/ r.tag = "Raised" THEN LuaNil ELSE UserData(phase, r)

LuaInspectFlows ==
    /\ pc = "flows"
    /\ pr2' = lua_inspect_flows(Handle("APhase1", pr1), answers.flow_results)
    /\ pc' = "process"
    /\ UNCHANGED <<table, config, answers, oneshot, pr1, staged, io>>
    /\ UNCHANGED <<mergeVars, strongerVars, tagVars, matchVars>>

LuaInspectProcess ==
    /\ pc = "process"
    /\ staged' = lua_inspect_process(Handle("APhase2I", pr2), answers.limit_results)
    /\ pc' = "inspected"
    /\ UNCHANGED <<table, config, answers, oneshot, pr1, pr2, io>>
    /\ UNCHANGED <<mergeVars, strongerVars, tagVars, matchVars>>

\* the embedder skips inspect_request_flows and passes the handle of
\* inspect_request_init to inspect_request_process
LuaInspectProcessEarly ==
    /\ pc = "flows"
    /\ staged' = lua_inspect_process(Handle("APhase1", pr1), answers.limit_results)
    /\ pc' = "inspected"
    /\ UNCHANGED <<table, config, answers, oneshot, pr1, pr2, io>>
    /\ UNCHANGED <<mergeVars, strongerVars, tagVars, matchVars>>

NextInspect ==
    \/ LuaInspectRequest
    \/ LuaInspectInit
    \/ LuaInspectFlows
    \/ LuaInspectProcess
    \/ LuaInspectProcessEarly

SpecInspect == InitInspect /\ [][NextInspect]_vars

(***************************************************************************)
(* Specification of the matcher: check_rule on a rule and on its optimized *)
(* form, against the same request                                          *)
(***************************************************************************)
InitMatch ==
    /\ pc = "match"
    /\ mrule \in MatchInputs.children \cup MatchInputs.entries
                   \cup {Rel(r, q) : r \in {"And", "Or"},
                                     q \in SeqsUpTo(MatchInputs.children, MaxEntries)}
    /\ mreq \in MatchInputs.rinfos
    /\ mres = NoMatch
    /\ mopt = NotRun
    /\ MergeIdle
    /\ StrongerIdle
    /\ TagIdle
    /\ InspectIdle

CheckRule ==
    /\ pc = "match"
    /\ mres' = check_rule(mreq, Tags_new, mrule)
    /\ mopt' = [tag |-> "Optimized", rule |-> optimize(mrule),
                res |-> check_rule(mreq, Tags_new, optimize(mrule))]
    /\ pc' = "matched"
    /\ UNCHANGED <<mrule, mreq>>
    /\ UNCHANGED <<mergeVars, strongerVars, tagVars, inspectVars>>

NextMatch == CheckRule

SpecMatch == InitMatch /\ [][NextMatch]_vars

(***************************************************************************)
(* Properties of merge_decisions (SpecMerge)                               *)
(***************************************************************************)
\* priority of the action of a decision, a decision without action ranking
\* below every action
DecisionPriority(d) ==
    IF IsSome(d.maction) THEN ActionType_priority(Unwrap(d.maction).atype) ELSE 0

\* the fields of an action that merge_decisions never rewrites
ActionIdentity(ma) ==
    IF IsSome(ma)
    THEN Some([atype |-> Unwrap(ma).atype, block_mode |-> Unwrap(ma).block_mode,
               status |-> Unwrap(ma).status, content |-> Unwrap(ma).content,
               extra_tags |-> Unwrap(ma).extra_tags])
    ELSE None

HasSkipReason(d) == \E i \in 1..Len(d.reasons) : d.reasons[i].decision = "Skip"

\* C1: the action of merge_decisions(d1, d2) has the maximum of the two
\* priorities (no action ranks lowest), and on equal priorities the kept
\* action is the one of d1.
C1_MergePriorityIsMax ==
    pc = "merged" =>
        /\ DecisionPriority(merged) = Max(DecisionPriority(d1), DecisionPriority(d2))
        /\ DecisionPriority(d1) = DecisionPriority(d2)
              => ActionIdentity(merged.maction) = ActionIdentity(d1.maction)

C1_Witness ==
    /\ pc = "merged"
    /\ IsSome(d1.maction) /\ IsSome(d2.maction)
    /\ DecisionPriority(d1) = DecisionPriority(d2)
    /\ Unwrap(d1.maction).status /= Unwrap(d2.maction).status
    /\ Unwrap(merged.maction).status = Unwrap(d1.maction).status

\* C2 as stated: the reasons of merge_decisions(d1, d2) are the reasons of d1
\* followed by the reasons of d2, whichever action is kept.
C2_ReasonsInArgumentOrder ==
    pc = "merged" => merged.reasons = d1.reasons \o d2.reasons

\* C2 amended: the reasons of merge_decisions(d1, d2) are the reasons of the
\* kept decision followed by the reasons of the thrown one: d1 then d2 unless
\* the action of d2 has the strictly higher priority, d2 then d1 in that case.
C2_ReasonsKeptThenThrown ==
    pc = "merged" =>
        merged.reasons =
            IF DecisionPriority(d2) > DecisionPriority(d1)
            THEN d2.reasons \o d1.reasons
            ELSE d1.reasons \o d2.reasons

C2_Witness ==
    /\ pc = "merged"
    /\ DecisionPriority(d2) > DecisionPriority(d1)
    /\ Len(d1.reasons) > 0 /\ Len(d2.reasons) > 0
    /\ d1.reasons \o d2.reasons /= d2.reasons \o d1.reasons
    /\ merged.reasons = d2.reasons \o d1.reasons

\* C6: a decision holding a Skip reason is final whatever its action, and
\* merge_decisions(d1, d2) is final whenever d1 or d2 holds a Skip reason.
C6_SkipReasonIsFinal ==
    pc = "merged" =>
        /\ \A d \in {d1, d2, merged} : HasSkipReason(d) => Decision_is_final(d)
        /\ (HasSkipReason(d1) \/ HasSkipReason(d2)) => Decision_is_final(merged)

C6_Witness ==
    /\ pc = "merged"
    /\ HasSkipReason(d2) /\ ~HasSkipReason(d1)
    /\ IsSome(merged.maction) /\ Unwrap(merged.maction).atype = "Monitor"
    /\ Decision_is_final(merged)

(***************************************************************************)
(* Properties of stronger_decision (SpecStronger)                          *)
(***************************************************************************)
\* the priority order the specification gives for SimpleAction kinds
KindRank(sd) ==
    LET k == sd.action.atype.kind
    IN  CASE k \in {"Fingerprint", "FingerprintBlock"} -> 10
          [] k = "Skip" -> 9
          [] k = "Custom" -> 8
          [] k = "Challenge" -> 6
          [] k = "Identity" -> 2
          [] k = "Monitor" -> 1

\* C3: stronger_decision(d1, d2) is d2 when d1 is Pass, d1 when d2 is Pass,
\* else the argument of strictly higher priority, and d1 on equal priority.
C3_StrongerReturnsArgument ==
    pc = "stronger_done" =>
        s12 = IF s1 = Pass THEN s2
              ELSE IF s2 = Pass THEN s1
              ELSE IF KindRank(s2) > KindRank(s1) THEN s2
              ELSE s1

C3_Witness ==
    /\ pc = "stronger_done"
    /\ s1 /= Pass /\ s2 /= Pass
    /\ KindRank(s1) = KindRank(s2)
    /\ s1.action.atype.kind /= s2.action.atype.kind
    /\ s12 = s1

\* C4: stronger_decision is associative on every triple, and commutative on
\* every pair where one side is Pass or the two priorities differ.
C4_StrongerAssocComm ==
    pc = "stronger_done" =>
        /\ sL = sR
        /\ (s1 = Pass \/ s2 = Pass \/ KindRank(s1) /= KindRank(s2)) => s12 = s21

C4_Witness ==
    /\ pc = "stronger_done"
    /\ s1 /= Pass /\ s2 /= Pass /\ s3 /= Pass
    /\ KindRank(s1) < KindRank(s2) /\ KindRank(s2) < KindRank(s3)
    /\ sL = s3 /\ sR = s3 /\ s12 = s2 /\ s21 = s2

(***************************************************************************)
(* Properties of the action kinds, tag_request and to_action (SpecTag)     *)
(***************************************************************************)
Tagged == pc \in {"tagged", "rendered"}

HasVisitorHeader == "browserfingerid" \in DOMAIN request.headers

\* the configured section a per-section decision comes from
SectionOf(cd) == CHOOSE sec \in {filters[i] : i \in 1..Len(filters)} : sec.id = cd.reasons[1].id

FromFingerprintSection(cd) ==
    Unwrap(SectionOf(cd).action).atype.kind = "Fingerprint"

\* C5 as stated: is_blocking holds exactly for Block, Custom, FingerprintBlock
\* and Challenge, for SimpleActionT / SimpleAction as for ActionType /
\* Decision.
C5_IsBlockingKinds ==
    /\ (Tagged /\ tagged.decision.tag = "Action") =>
          (SimpleAction_is_blocking(tagged.decision.action)
              <=> tagged.decision.action.atype.kind \in {"Custom", "FingerprintBlock", "Challenge"})
    /\ (pc = "rendered" /\ IsSome(rendered)) =>
          /\ ActionType_is_blocking(Unwrap(rendered).atype) <=> Unwrap(rendered).atype = "Block"
          /\ Decision_is_blocking([maction |-> rendered, reasons |-> tagged.decision.reasons])
                <=> Unwrap(rendered).atype = "Block"

\* C9: a matching section with action Fingerprint{content c}, on a request
\* without browserfingerid header, contributes FingerprintBlock{content c}
\* with the status of the section and one Blocking global filter reason;
\* to_action renders it as a Block action with body c.
C9_MissingVisitorIdBlocks ==
    (Tagged /\ ~HasVisitorHeader) =>
        /\ \A i \in 1..Len(filters) :
              (filters[i].rule = SectionRules.Always.rule
               /\ filters[i].action = Some(SectionActions.Fingerprint))
                 => \E j \in 1..Len(tagged.curdecs) : tagged.curdecs[j].reasons[1].id = filters[i].id
        /\ \A j \in 1..Len(tagged.curdecs) :
              LET cd == tagged.curdecs[j]
                  a == Unwrap(SectionOf(cd).action)
              IN  FromFingerprintSection(cd) =>
                     /\ cd.action.atype = [kind |-> "FingerprintBlock", content |-> a.atype.content]
                     /\ cd.action.status = a.status
                     /\ Len(cd.reasons) = 1
                     /\ cd.reasons[1].initiator = "GlobalFilter"
                     /\ cd.reasons[1].decision = "Blocking"
        /\ (pc = "rendered" /\ FromFingerprintSection(tagged.decision)) =>
              LET a == Unwrap(SectionOf(tagged.decision).action)
              IN  /\ IsSome(rendered)
                  /\ Unwrap(rendered).atype = "Block"
                  /\ Unwrap(rendered).content = a.atype.content
                  /\ Unwrap(rendered).status = a.status

C9_Witness ==
    /\ pc = "rendered"
    /\ ~HasVisitorHeader
    /\ FromFingerprintSection(tagged.decision)
    /\ tagged.decision.action.atype = [kind |-> "FingerprintBlock", content |-> "fp"]
    /\ Unwrap(rendered).atype = "Block"
    /\ Unwrap(rendered).content = "fp"
    /\ Unwrap(rendered).status = 503

\* does the service confirm the visitor id
Confirms(service, id) == service.reachable /\ id \in service.ids

\* C10 as stated: with a browserfingerid header, the action of a matching
\* Fingerprint section becomes FingerprintBlock exactly when neither the
\* key-value store nor the HTTPS provider confirms the id.
C10_UnconfirmedVisitorIdBlocks ==
    (Tagged /\ HasVisitorHeader) =>
        \A j \in 1..Len(tagged.curdecs) :
            LET cd == tagged.curdecs[j]
                id == request.headers["browserfingerid"]
            IN  FromFingerprintSection(cd) =>
                   (cd.action.atype.kind = "FingerprintBlock"
                       <=> ~(Confirms(lookups.store, id) \/ Confirms(lookups.provider, id)))

(***************************************************************************)
(* Properties of the embedding API (SpecInspect)                           *)
(***************************************************************************)
\* the argument table converts and its meta holds method and path
WellFormed(t) ==
    LET conv == lua_convert_args(t)
    IN  conv.ok /\ RequestMeta_from_map(conv.v.meta).ok

\* no visitor id to look up: inspect_init has no lookup to make
NeedsNoIo(t) ==
    t.headers.ty = "table" => "browserfingerid" \notin DOMAIN t.headers.v

\* both values are errors, or both are results with the same decision
SameOutcome(a, b) ==
    /\ a.ok = b.ok
    /\ a.ok => a.v.decision = b.v.decision

\* C7: on arguments that need no external I/O, inspect_request gives the
\* same outcome as inspect_init, inspect_flows with an empty list and
\* inspect_process with an empty list
C7_OneShotEqualsStaged ==
    (pc = "inspected" /\ pr2.tag /= "NotRun" /\ answers = NoAnswers /\ NeedsNoIo(table))
        => SameOutcome(oneshot, staged)

\* C8: on well-formed arguments inspect_init returns a finished result or
\* a phase-1 state, never an error, with or without a browserfingerid
\* header and whatever the lookups answer
C8_InitNeverErrors ==
    (pc \in {"flows", "process", "inspected"} /\ WellFormed(table))
        => pr1.tag \in {"P0Result", "P1"}

\* C11 as stated: on a missing or ill-typed argument each of the four
\* functions returns a value that carries an error, and none of them raises
\* an error to the caller.
C11_ErrorsAreReturned ==
    /\ (pc /= "request" /\ ~WellFormed(table)) => ~oneshot.ok
    /\ (pc \in {"flows", "process", "inspected"} /\ ~WellFormed(table)) => pr1.tag = "P0Error"
    /\ (pc \in {"process", "inspected"} /\ pr2.tag /= "NotRun")
          => pr2.tag \in {"P0Result", "P0Error", "P1"}
    /\ (pc = "inspected" /\ (answers.limit_results.ty /= "table" \/ answers.handles = "lost"))
          => ~staged.ok

\* C12: inspect_request_process gives a decision only from a state that
\* inspect_request_flows made out of a phase-1 state; a finished result or
\* an error of an earlier stage goes through inspect_request_flows unchanged
\* and makes inspect_request_process return an error.
C12_PhaseOrder ==
    /\ (pc \in {"process", "inspected"} /\ pr2.tag \in {"P0Result", "P0Error", "P1"})
          => /\ pr2.tag = pr1.tag
             /\ pr2.tag \in {"P0Result", "P0Error"} => pr2 = pr1
    /\ pc = "inspected"
          => /\ staged.ok => (pr1.tag = "P1" /\ pr2.tag = "P1" /\ answers.handles = "kept")
             /\ pr1.tag \in {"P0Result", "P0Error"} => ~staged.ok

\* a finished result of inspect_request_init went through
\* inspect_request_flows and was refused by inspect_request_process
C12_Witness ==
    /\ pc = "inspected"
    /\ pr1.tag = "P0Result"
    /\ pr2.tag = "P0Result"
    /\ answers.handles = "kept"
    /\ answers.limit_results.ty = "table"
    /\ ~staged.ok

(***************************************************************************)
(* Further properties of tag_request (SpecTag)                             *)
(***************************************************************************)
\* C13 as stated: when a Monitor section and a Custom section both match
\* (in either order), the tagging decision is the Custom action, it carries
\* two block reasons, and it holds no header of the Monitor section.
C13_MonitorAndCustom ==
    (/\ Tagged
     /\ Len(filters) = 2
     /\ Len(tagged.curdecs) = 2
     /\ {tagged.curdecs[j].action.atype.kind : j \in 1..2} = {"Monitor", "Custom"})
        => /\ tagged.decision.tag = "Action"
           /\ tagged.decision.action.atype.kind = "Custom"
           /\ Len(tagged.decision.reasons) = 2
           /\ tagged.decision.action.headers = SectionActions.Custom.headers

(***************************************************************************)
(* Properties of the matcher (SpecMatch)                                   *)
(***************************************************************************)
Matched == pc = "matched"

HasIp4 == IsSome(mreq.ip) /\ Unwrap(mreq.ip).v = 4

OnlyNetworks(rule) ==
    /\ rule.kind = "Rel"
    /\ \A i \in 1..Len(rule.entries) : rule.entries[i].entry.t = "Network"

TestSucceeds(rinfo, e) ==
    CASE e.t = "Always" -> e.v
      [] e.t = "Ip" -> rinfo.ip = Some(e.addr)
      [] e.t \in {"Network", "Range4", "Range6"} -> IsSome(rinfo.ip) /\ Unwrap(rinfo.ip) \in e.net
      [] e.t = "Path" -> rinfo.qpath = e.single.exact
      [] e.t = "Query" -> rinfo.query = e.single.exact
      [] e.t = "Country" -> rinfo.country_iso \in {Some(<<"US">>), Some(<<"us">>)}
      [] e.t = "Region" -> rinfo.region \in {Some(<<"NY">>), Some(<<"ny">>)}
      [] e.t = "SubRegion" -> rinfo.subregion = Some(e.single.exact)
      [] e.t = "Asn" -> rinfo.asn = Some(e.asn)
      [] e.t = "Company" -> rinfo.company = Some(e.single.exact)

IpOrGeoKinds ==
    {"Ip", "Network", "Range4", "Range6", "Country", "Region", "SubRegion", "Asn", "Company"}

NoIpNoGeo(rinfo) ==
    /\ rinfo.ip = None /\ rinfo.country_iso = None /\ rinfo.region = None
    /\ rinfo.subregion = None /\ rinfo.asn = None /\ rinfo.company = None

\* C15: an entry matches exactly when (its test succeeds) differs from (its
\* negated flag), a negated entry whose test fails matching with no location;
\* on a request without IP and geo attributes every IP/geo entry matches
\* exactly when it is negated
C15_EntryNegation ==
    (Matched /\ mrule.kind = "Entry")
        => /\ mres.matching = (TestSucceeds(mreq, mrule.entry) /= mrule.negated)
           /\ (mrule.negated /\ ~TestSucceeds(mreq, mrule.entry))
                 => (mres.matching /\ mres.matched = {})
           /\ (mrule.negated /\ TestSucceeds(mreq, mrule.entry)) => ~mres.matching
           /\ (NoIpNoGeo(mreq) /\ mrule.entry.t \in IpOrGeoKinds)
                 => mres.matching = mrule.negated

\* C15 (witness): a negated network entry checked against a request without
\* IP matched with no location
C15_Witness ==
    /\ Matched /\ mrule.kind = "Entry" /\ mrule.entry.t = "Network" /\ mrule.negated
    /\ NoIpNoGeo(mreq)
    /\ mres.matching /\ mres.matched = {}

\* C16: whenever check_rule reports a match, the set of matched locations is
\* not empty
C16_MatchHasLocation ==
    (Matched /\ mres.matching) => mres.matched /= {}

(***************************************************************************)
(* Properties of the log record (SpecTag)                                  *)
(***************************************************************************)
Logged == pc = "logged" /\ IsSome(logrec)

MonitorLogged == Logged /\ IsSome(rendered) /\ Unwrap(rendered).atype = "Monitor"

StatusTags(code) == { <<"status", "=", code>>, <<"status-class", "=", code \div 100, "xx">> }

HasSyntheticTag(tgs) == \E t \in tgs : Len(t) >= 2 /\ t[1] \in {"status", "status-class"} /\ t[2] = "="

\* C17: the tags of the log record hold status=N and status-class=(N/100)xx
\* exactly when a response code N is known and the action is not Monitor; for
\* a Monitor action they are absent while response_code still carries the code
C17_StatusTags ==
    Logged =>
        LET rec == Unwrap(logrec)
        IN  /\ (IsSome(rec.response_code) /\ ~MonitorLogged)
                  => StatusTags(Unwrap(rec.response_code)) \subseteq rec.tags
            /\ (rec.response_code = None \/ MonitorLogged) => ~HasSyntheticTag(rec.tags)

\* C17 (witness): a Monitor action logged with response code 200 and without
\* the synthetic tags
C17_Witness ==
    /\ MonitorLogged
    /\ Unwrap(logrec).response_code = Some(200)
    /\ ~HasSyntheticTag(Unwrap(logrec).tags)

(***************************************************************************)
(* Properties of the identity hash (SpecTag)                               *)
(***************************************************************************)
\* C18: for an Identity action whose template of a target header is the empty
\* part list, the identity stored for the header is the SHA-256 of the empty
\* string
C18_EmptyTemplateHash ==
    (Tagged /\ "h3" \in DOMAIN tagged.identity) => tagged.identity["h3"] = Sha256(<<>>)

(***************************************************************************)
(* Properties of the phases of the embedding API (SpecInspect)             *)
(***************************************************************************)
\* C19: no inspection phase performs a blocking external lookup: inspect_init
\* completes without having called the store or the provider
C19_NoBlockingIo ==
    pc \in {"flows", "process", "inspected"} => io = <<>>

\* result of check_rule on the i-th child of the relation checked
ChildResult(i) == check_rule(mreq, Tags_new, mrule.entries[i])

MatchingChildren == {i \in 1..Len(mrule.entries) : ChildResult(i).matching}

\* C20: an And relation matches exactly when every child matches, with the
\* union of the locations of the children; an Or relation returns the result
\* of its first matching child, and no match with no location when no child
\* matches
C20_AndOr ==
    (Matched /\ mrule.kind = "Rel")
        => /\ mrule.relation = "And"
                 => /\ mres.matching = (MatchingChildren = 1..Len(mrule.entries))
                    /\ mres.matching
                          => mres.matched = UNION {ChildResult(i).matched : i \in MatchingChildren}
           /\ mrule.relation = "Or"
                 => IF MatchingChildren = {} THEN mres = NoMatch
                    ELSE \E f \in MatchingChildren :
                            /\ \A i \in MatchingChildren : f <= i
                            /\ mres = ChildResult(f)

\* C20 (witness): an Or relation whose two children both match, with
\* different locations, returned the locations of the first
C20_Witness ==
    /\ Matched /\ mrule.kind = "Rel" /\ mrule.relation = "Or"
    /\ MatchingChildren = {1, 2}
    /\ ChildResult(1).matched /= ChildResult(2).matched
    /\ mres.matched = ChildResult(1).matched

(***************************************************************************)
(* Further properties of the identity hash (SpecTag)                       *)
(***************************************************************************)
\* the names of the seed tags
SeedNames ==
    LET seeds == seed_entries(human, request)
    IN  {seeds[j][1] : j \in 1..Len(seeds)}

\* the names of the tags when section i is checked: the seed tags and the
\* tags of the matching sections before it (as a map without locations)
TagsBefore(i) ==
    [n \in SeedNames \cup UNION {tagged.trace[j].added : j \in 1..(i - 1)} |-> {}]

SectionMatched(i) == tagged.trace[i].matching

\* a matching section with an Identity action that has a headers map
IdentitySection(i) ==
    /\ SectionMatched(i)
    /\ IsSome(filters[i].action)
    /\ Unwrap(filters[i].action).atype.kind = "Identity"
    /\ IsSome(Unwrap(filters[i].action).headers)

IdentityTemplates(i) == Unwrap(Unwrap(filters[i].action).headers)

\* the last of the Identity sections that hash for header k
LastFor(i, k) ==
    \A j \in (i + 1)..Len(filters) : IdentitySection(j) => k \notin DOMAIN IdentityTemplates(j)

\* "." and the value, or its first match of the pending pattern
ReferenceSegment(pat, value) ==
    <<".">> \o (IF pat = <<>> THEN value
                ELSE IF IsSome(regex_find(pat, value)) THEN Unwrap(regex_find(pat, value))
                ELSE <<"none">>)

\* the reference string of a template: st holds the output, the pending
\* pattern and the current value
RECURSIVE ReferenceLoop(_, _, _)
ReferenceLoop(st, template, tgs) ==
    IF template = <<>> THEN st.out \o ReferenceSegment(st.pat, st.cur)
    ELSE LET part == Head(template)
             nxt ==
                 CASE part.p = "Raw" -> [st EXCEPT !.pat = @ \o part.s]
                   [] part.p = "Tag" ->
                         [st EXCEPT !.out = @ \o (IF part.name \in DOMAIN tgs THEN <<"true">>
                                                  ELSE <<"false">>)]
                   [] part.p = "Sel" ->
                         LET sel == selector(request, part.sel, tgs)
                             v == IF IsSome(sel) THEN Unwrap(sel) ELSE <<"None">>
                         IN  IF v = st.cur THEN st
                             ELSE [out |-> st.out \o ReferenceSegment(st.pat, st.cur),
                                   pat |-> <<>>, cur |-> v]
         IN  ReferenceLoop(nxt, Tail(template), tgs)

ReferenceHash(template, tgs) ==
    Sha256(ReferenceLoop([out |-> <<>>, pat |-> <<>>, cur |-> <<>>], template, tgs))

\* C21: the string hashed for a template is the reference string: a segment
\* for every selector whose value differs from the previous value, "true" or
\* "false" alone for every Tag part, and a closing segment
C21_HashIsReference ==
    Tagged =>
        \A i \in 1..Len(filters) :
            IdentitySection(i) =>
                \A k \in DOMAIN IdentityTemplates(i) :
                    LastFor(i, k) =>
                        tagged.identity[k] = ReferenceHash(IdentityTemplates(i)[k], TagsBefore(i + 1))

\* the hash section i computes for target header k
SectionHash(i, k) ==
    Sha256(identity_hash_item(IdentityTemplates(i)[k], request, TagsBefore(i + 1)).hash_item)

DecisionHeaders ==
    IF tagged.decision.tag = "Action" /\ IsSome(tagged.decision.action.headers)
    THEN Unwrap(tagged.decision.action.headers) ELSE EmptyMap

DecisionKind == IF tagged.decision.tag = "Action" THEN tagged.decision.action.atype.kind ELSE "Pass"

\* a later matching Monitor section sets header k itself
MonitorOverwrites(i, k) ==
    \E j \in (i + 1)..Len(filters) :
        /\ SectionMatched(j) /\ IsSome(filters[j].action)
        /\ Unwrap(filters[j].action).atype.kind = "Monitor"
        /\ IsSome(Unwrap(filters[j].action).headers)
        /\ k \in DOMAIN Unwrap(Unwrap(filters[j].action).headers)

SideMapOf(i) ==
    IF ~(SectionMatched(i) /\ IsSome(filters[i].action)) THEN EmptyMap
    ELSE LET a == Unwrap(filters[i].action)
         IN  IF a.atype.kind = "Monitor"
             THEN (IF IsSome(a.headers) THEN Unwrap(a.headers) ELSE EmptyMap)
             ELSE IF IdentitySection(i)
             THEN [k \in DOMAIN IdentityTemplates(i) |-> parse_request_template(SectionHash(i, k))]
             ELSE EmptyMap

\* the side maps of the sections up to i, a later section overwriting an
\* earlier one on the same key
RECURSIVE SideMap(_)
SideMap(i) == IF i = 0 THEN EmptyMap ELSE MapExtend(SideMap(i - 1), SideMapOf(i))

QueryChecked == Matched /\ mrule.kind = "Entry" /\ mrule.entry.t = "Query"

\* C24: a Query entry is compared against the qpath of the request and a
\* match is reported at Location Path
C24_QueryAgainstQpath ==
    QueryChecked
        => /\ mres.matching = ((mreq.qpath = mrule.entry.single.exact) /= mrule.negated)
           /\ (mres.matching /\ ~mrule.negated) => mres.matched = {Location("Path")}

\* C24 (amended): a Query entry is compared against the query string of the
\* request and a match is reported at Location Path
C24_QueryAgainstQuery ==
    QueryChecked
        => /\ mres.matching = ((mreq.query = mrule.entry.single.exact) /= mrule.negated)
           /\ (mres.matching /\ ~mrule.negated) => mres.matched = {Location("Path")}

\* C24 (witness): the Query entry "x" matched the request /a?x at Location Path
C24_Witness ==
    /\ QueryChecked /\ ~mrule.negated
    /\ mrule.entry.single.exact = <<"x">> /\ mreq.query = <<"x">> /\ mreq.qpath = <<"/", "a">>
    /\ mres.matching /\ mres.matched = {Location("Path")}

(***************************************************************************)
(* Properties of the order of the sections (SpecTag)                       *)
(***************************************************************************)
SkipMatched ==
    \E i \in 1..Len(filters) :
        /\ SectionMatched(i) /\ IsSome(filters[i].action)
        /\ Unwrap(filters[i].action).atype.kind = "Skip"

\* C25: when a matching section carries a Skip action, the decision returned
\* is a Skip decision of such a section, whatever other sections match
C25_SkipWins ==
    (Tagged /\ SkipMatched)
        => /\ DecisionKind = "Skip"
           /\ Unwrap(SectionOf(tagged.decision).action).atype.kind = "Skip"

(***************************************************************************)
(* Properties of to_decision and to_action (SpecTag)                       *)
(***************************************************************************)
Decided == pc = "decided" /\ IsSome(verdict)

ChallengeDecided == Decided /\ tagged.decision.action.atype.kind = "Challenge"

OracleAsked ==
    IsSome(Unwrap(verdict).mgh) /\ "user-agent" \in DOMAIN request.headers

\* C26: for a Challenge action and a request that is not human, to_decision
\* gives the challenge response of the oracle (an oracle and a user-agent
\* header being there) or else the blocking default action (Block, 503);
\* for a human request it gives a Monitor action
C26_ChallengeNeverPasses ==
    ChallengeDecided =>
        LET d == Unwrap(verdict).out.decision
        IN  IF human
            THEN /\ IsSome(d.maction)
                 /\ Unwrap(d.maction).atype = "Monitor"
                 /\ ~Decision_is_blocking(d)
            ELSE IF OracleAsked
            THEN d = challenge_phase01(Unwrap(Unwrap(verdict).mgh),
                                       request.headers["user-agent"], tagged.decision.reasons)
            ELSE /\ IsSome(d.maction)
                 /\ Unwrap(d.maction).atype = "Block"
                 /\ Unwrap(d.maction).status = 503
                 /\ Decision_is_blocking(d)

\* C26 (witness): a Challenge action, a request that is not human and no
\* oracle: the decision is the default block
C26_Witness ==
    /\ ChallengeDecided /\ ~human /\ Unwrap(verdict).mgh = None
    /\ Unwrap(verdict).out.decision.maction = Some(Action_default)

(***************************************************************************)
(* Headers of a merged Monitor decision (SpecMerge)                        *)
(***************************************************************************)
HeaderKeys(d) ==
    IF IsSome(d.maction) /\ IsSome(Unwrap(d.maction).headers)
    THEN DOMAIN Unwrap(Unwrap(d.maction).headers)
    ELSE {}

\* C27: when the action merge_decisions keeps is Monitor, the keys of the
\* headers of the result are those of both decisions together, also when the
\* kept action has no headers map; when the kept action is not Monitor its
\* headers are unchanged
C27_MonitorHeadersUnion ==
    pc = "merged" =>
        LET kept == merge_choose(d1, d2)[1]
        IN  IF IsSome(kept.maction) /\ Unwrap(kept.maction).atype = "Monitor"
            THEN HeaderKeys(merged) = HeaderKeys(d1) \cup HeaderKeys(d2)
            ELSE IsSome(kept.maction) =>
                     Unwrap(merged.maction).headers = Unwrap(kept.maction).headers

(***************************************************************************)
(* Identity sections and the return of tag_request (SpecTag)               *)
(***************************************************************************)
HasIdentitySection ==
    \E i \in 1..Len(filters) :
        /\ IsSome(filters[i].action)
        /\ Unwrap(filters[i].action).atype.kind = "Identity"

\* C28: tag_request returns normally whatever Identity sections are
\* configured: an Identity action without a headers map and an Identity
\* template whose Raw part is not a valid regular expression do not abort it
C28_IdentityNeverAborts ==
    HasIdentitySection => pc /= "panicked"

(***************************************************************************)
(* Order of evaluation of the sections (SpecTag)                           *)
(***************************************************************************)
\* C29: the sections are checked in the configured order against the tags
\* accumulated so far: section i matches exactly when its rule holds of the
\* seed tags and the tags of the matching sections before it (so a Tag entry
\* sees a tag of an earlier matching section and never one of its own or of
\* a later section), and the statistics count every matching section
C29_SectionsInOrder ==
    pc = "tagged" =>
        /\ Len(tagged.trace) = Len(filters)
        /\ \A i \in 1..Len(filters) :
               /\ SectionMatched(i)
                    = check_rule(request, TagsBefore(i), filters[i].rule).matching
               /\ tagged.trace[i].added = IF SectionMatched(i) THEN filters[i].tags ELSE {}
        /\ DOMAIN tagged.tags = DOMAIN TagsBefore(Len(filters) + 1)
        /\ tagged.stats.matched = Cardinality({i \in 1..Len(filters) : SectionMatched(i)})

\* C29 (witness): a section whose Tag entry asks for a tag that is no seed
\* tag matches after the section that adds it, and both are counted, the
\* first one having no action
C29_Witness ==
    /\ pc = "tagged"
    /\ Len(filters) = 2
    /\ filters[2].rule = SectionRules.Tag.rule
    /\ BadTag \notin SeedNames
    /\ BadTag \in filters[1].tags
    /\ filters[1].action = None
    /\ SectionMatched(1) /\ SectionMatched(2)
    /\ tagged.stats.matched = 2

(***************************************************************************)
(* block_mode of the action made by to_action (SpecTag)                    *)
(***************************************************************************)
\* C30: the block_mode of every action made by to_action tells whether the
\* type of that action is blocking: true for Block, false for Monitor and
\* Skip
C30_BlockModeIsBlocking ==
    (pc = "rendered" /\ IsSome(rendered)) =>
        Unwrap(rendered).block_mode = ActionType_is_blocking(Unwrap(rendered).atype)

====
